---- MODULE Spec2Model ----
(***************************************************************************)
(* Verification model of building-map-app: the flood-fill engine of the    *)
(* flood-fill page and the colour classifier, pixel clustering and         *)
(* polygon conversion of the map page (src/src/app/flood-fill-test/        *)
(* page.tsx).                                                              *)
(*                                                                         *)
(* The specifications share the variables below; each one drives its own   *)
(* group of variables and leaves the others at their initial value:        *)
(*   SpecFill / SpecFillFair  floodFill, one loop iteration per step       *)
(*   SpecCluster              clusterPixels on a pixel sequence, and       *)
(*                            calculateBounds, boundsToPolygon on clusters *)
(*   SpecDetect               detectBuildingsByColor from clustering on    *)
(*   SpecTile                 detectBuildingsByColor from the call on      *)
(*   SpecRetry                two calls of detectBuildingsByColor in a row *)
(*   SpecBlock                detectBuildingsByColor on a full tile        *)
(*   SpecFetch                fetchBuildings and its fallback              *)
(*   SpecClassify             isBuildingColor of both pages                *)
(*   SpecPage                 the flood-fill page: search and effects      *)
(***************************************************************************)
EXTENDS Integers, Sequences, FiniteSets

VARIABLES
    \* ---- floodFill (page.tsx 128-199) ----
    data,             \* imageData.data, one RGBA record per pixel index
    stack,            \* the work stack of points
    processedPixels,  \* the counter returned at the end
    startColor,       \* colour read at the seed index on entry
    fpc,              \* "idle" | "loop" | "done"
    startX, startY,   \* seed argument
    fillColor,        \* fillColor argument
    tolerance,        \* tolerance argument
    ret,              \* value returned by the last finished call
    data0,            \* the buffer as it was when the current call was entered
    repeat,           \* the current call repeats the arguments of the call before it
    \* ---- clusterPixels (page.tsx 819-856) ----
    pixels,           \* the input pixel sequence
    maxDistance,      \* the maxDistance argument
    clusters,         \* the returned clusters
    cpc,              \* "ready" | "done"
    \* ---- calculateBounds, boundsToPolygon (page.tsx 859-881) ----
    cbCluster,        \* the cluster handed to calculateBounds
    cbBounds,         \* what calculateBounds returned for it
    cbPolygon,        \* what boundsToPolygon returned for cbBounds
    \* ---- detectBuildingsByColor (page.tsx 884-1080) ----
    lat, lon,         \* the query point (see TileOf for the unit)
    imageData,        \* the decoded pixels, NoImage before decoding
    buildingPixels,   \* pixels the scan classified 'building'
    boundaryPixels,   \* pixels the scan classified 'boundary'
    pixelX, pixelY,   \* the query pixel inside the tile
    debugInfo,        \* the debugInfo state of the component
    result,           \* what the call returned: "unset" | "null" | "FeatureCollection"
    ran,              \* the stages this call has executed
    failure,          \* how the fetch or the decoding failed, "none" if neither did
    prevCall,         \* how the call before this one ended
    cpIndex,          \* clusterPixels run step by step: position of its for loop
    cpVisited,        \*   its visited set
    cpCluster,        \*   the cluster being collected
    cpQueue,          \*   the queue of the while loop
    tileX, tileY,     \* index of the fetched tile
    nearbyBuildingPixels, \* the filtered building pixels handed to clustering
    dclusters,        \* const clusters of detectBuildingsByColor
    polygons,         \* the polygons pushed so far
    clusterIdx,       \* position of the for-of loop over clusters
    features,         \* features of the returned FeatureCollection
    dpc,              \* "idle" | "start" | "fetch" | "decode" | "scan" | "marker"
                      \* | "filter" | "cluster" | "convert" | "done"
    \* ---- fetchBuildings (page.tsx 1249-1303) ----
    fbLat, fbLon,     \* the arguments of fetchBuildings
    overpass,         \* what the request to the Overpass API yields
    fbpc,             \* "idle" | "call" | "detect" | "done"
    fbResult,         \* what fetchBuildings returned
    \* ---- isBuildingColor (page.tsx 76-94 and 798-816) ----
    colorIn,          \* the pixel whose r, g, b are classified (a is carried along)
    tolIn,            \* the tolerance argument
    colorType,        \* result of the map page's isBuildingColor
    colorTypeFF,      \* result of the flood-fill page's isBuildingColor
    kpc,              \* "ready" | "map" | "ff" | "done"
    tolPrev,          \* the tolerance of the classification before this one
    typePrev,         \* what the map page's isBuildingColor returned then
    typePrevFF,       \* what the flood-fill page's isBuildingColor returned then
    \* ---- FloodFillTestPage (page.tsx 33-490) ----
    address,          \* the text of the address input
    status,           \* the status line
    isProcessing,     \* disables the input and the search button while TRUE
    center,           \* the centre of the map
    mapKey,           \* counts the successful searches
    markerPosition,   \* the searched coordinate, Null before the first success
    searching,        \* the addresses of the handleSearch calls awaiting handleGeocode
    effects,          \* the effects that the last render left to run
    drawing,          \* the drawMapTileWithMarker calls that have not finished
    canvas,           \* what the canvas shows: the last finished drawing
    floodFilledAt     \* the coordinate detectAndFloodFill last ran for

fillVars     == <<data, stack, processedPixels, startColor, fpc, startX, startY,
                  fillColor, tolerance, ret, data0, repeat>>
boundsVars   == <<cbCluster, cbBounds, cbPolygon>>
clusterVars  == <<pixels, maxDistance, clusters, cpc, boundsVars>>
fetchVars    == <<fbLat, fbLon, overpass, fbpc, fbResult>>
scanVars     == <<imageData, buildingPixels, boundaryPixels, pixelX, pixelY>>
stepVars     == <<cpIndex, cpVisited, cpCluster, cpQueue>>
detectVars   == <<tileX, tileY, nearbyBuildingPixels, dclusters, polygons, clusterIdx, features, dpc,
                  lat, lon, scanVars, debugInfo, result, ran, failure, prevCall, stepVars,
                  fetchVars>>
classifyVars == <<colorIn, tolIn, colorType, colorTypeFF, kpc, tolPrev, typePrev, typePrevFF>>
pageVars     == <<address, status, isProcessing, center, mapKey, markerPosition,
                  searching, effects, drawing, canvas, floodFilledAt>>
vars         == <<fillVars, clusterVars, detectVars, classifyVars, pageVars>>

-----------------------------------------------------------------------------
(* Bounds of the flood-fill model *)

Width  == 2
Height == 2

RGBA(r, g, b, a) == [r |-> r, g |-> g, b |-> b, a |-> a]

\* Colours a buffer pixel may start with: white, two greys at RGB distance
\* sqrt(75) and sqrt(300) from white, and a red with alpha 128.
PixelColors ==
    { RGBA(255, 255, 255, 255), RGBA(250, 250, 250, 255),
      RGBA(245, 245, 245, 255), RGBA(255, 0, 0, 128) }

\* Fill colours: what hexToRgb yields for "#ff0000" and "#ffffff".
FillColors == { RGBA(255, 0, 0, 255), RGBA(255, 255, 255, 255) }

\* Values of the tolerance slider (its range is 0..100).
Tolerances == { 0, 10 }

\* Seeds, in bounds and one step outside the buffer on every side.
SeedXs == -1 .. Width
SeedYs == -1 .. Height

PixelIndices == 0 .. (Width * Height - 1)

-----------------------------------------------------------------------------
(* floodFill *)

\* Reading a typed array outside its range yields undefined, which is equal
\* to no channel value and makes every arithmetic comparison false.
Undefined == [r |-> -1, g |-> -1, b |-> -1, a |-> -1]

\* (y * width + x) * 4 addresses the four bytes of one pixel; the model keeps
\* one record per pixel, so the index is y * width + x.
PixelIndex(x, y) == y * Width + x

ReadPixel(buf, i) == IF i \in DOMAIN buf THEN buf[i] ELSE Undefined

\* isSimilarColor with the metric of colorSimilarity (the sum of the absolute
\* channel differences) in place of the Euclidean distance.
isSimilarColorManhattan(color1, color2, tol) ==
    /\ color1 # Undefined
    /\ color2 # Undefined
    /\ (IF color1.r < color2.r THEN color2.r - color1.r ELSE color1.r - color2.r)
         + (IF color1.g < color2.g THEN color2.g - color1.g ELSE color1.g - color2.g)
         + (IF color1.b < color2.b THEN color2.b - color1.b ELSE color1.b - color2.b)
         <= tol

\* isSimilarColor: sqrt(dr^2 + dg^2 + db^2) <= tolerance.  For the integer
\* tolerances of the slider this is dr^2 + dg^2 + db^2 <= tolerance^2.
isSimilarColor(color1, color2, tol) ==
    /\ color1 # Undefined
    /\ color2 # Undefined
    /\ (color1.r - color2.r) * (color1.r - color2.r)
         + (color1.g - color2.g) * (color1.g - color2.g)
         + (color1.b - color2.b) * (color1.b - color2.b) <= tol * tol

\* The same test against the targetColor argument, which the caller passes
\* as { r: 0, g: 0, b: 0, a: 0 } (line 429), instead of fillColor.
SameAsTarget(color, fill) ==
    /\ color.r = 0
    /\ color.g = 0
    /\ color.b = 0

\* The test used at lines 150-152 and 178-180: r, g and b are compared.
SameAsFill(color, fill) ==
    /\ color.r = fill.r
    /\ color.g = fill.g
    /\ color.b = fill.b

\* The bounds check with > in place of >=.
OutOfBoundsOffByOne(x, y) == x < 0 \/ x > Width \/ y < 0 \/ y > Height

\* The bounds check of the loop, lines 160-162.
OutOfBounds(x, y) == x < 0 \/ x >= Width \/ y < 0 \/ y >= Height

\* Reading the top of the stack without removing it.
Peeked(s) == s

\* stack.pop(): the stack without its last element.
Popped(s) == SubSeq(s, 1, Len(s) - 1)

\* The overwrite without the store to data[index + 3].
WrittenAlphaKept(old, fill) == [fill EXCEPT !.a = old.a]

\* The overwrite without the store to data[index + 2].
WrittenWithoutBlue(old, fill) == [fill EXCEPT !.b = old.b]

\* The four stores of lines 185-188: every channel of the pixel, alpha
\* included, takes the value of fillColor.
Written(old, fill) == fill

\* The four pushes of lines 192-195.
PushNeighbors(s, x, y) ==
    s \o << <<x + 1, y>>, <<x - 1, y>>, <<x, y + 1>>, <<x, y - 1>> >>

InitFillIdle ==
    /\ stack = << >>
    /\ processedPixels = 0
    /\ startColor = Undefined
    /\ fpc = "idle"
    /\ startX = 0
    /\ startY = 0
    /\ fillColor = RGBA(255, 0, 0, 255)
    /\ tolerance = 0
    /\ ret = 0
    /\ repeat = FALSE

\* Entry of floodFill up to the loop (lines 136-154): read the seed's colour
\* and return 0 at once when it has the fill colour.
FloodFillCall(x, y, fill, tol) ==
    /\ fpc \in {"idle", "done"}
    /\ startX' = x
    /\ startY' = y
    /\ fillColor' = fill
    /\ tolerance' = tol
    /\ repeat' = (fpc = "done" /\ x = startX /\ y = startY
                    /\ fill = fillColor /\ tol = tolerance)
    /\ data0' = data
    /\ startColor' = ReadPixel(data, PixelIndex(x, y))
    /\ processedPixels' = 0
    /\ IF SameAsFill(ReadPixel(data, PixelIndex(x, y)), fill)
         THEN /\ fpc' = "done"
              /\ ret' = 0
              /\ stack' = << >>
         ELSE /\ fpc' = "loop"
              /\ ret' = ret
              /\ stack' = << <<x, y>> >>
    /\ UNCHANGED data
    /\ UNCHANGED <<clusterVars, detectVars, classifyVars, pageVars>>

\* One iteration of the while loop (lines 156-196).
FloodFillStep ==
    /\ fpc = "loop"
    /\ stack # << >>
    /\ LET p     == stack[Len(stack)]
           x     == p[1]
           y     == p[2]
           rest  == Popped(stack)
           index == PixelIndex(x, y)
           currentColor == ReadPixel(data, index)
       IN  IF OutOfBounds(x, y)
             THEN /\ stack' = rest
                  /\ UNCHANGED <<data, processedPixels>>
             ELSE IF ~isSimilarColor(currentColor, startColor, tolerance)
               THEN /\ stack' = rest
                    /\ UNCHANGED <<data, processedPixels>>
               ELSE IF SameAsFill(currentColor, fillColor)
                 THEN /\ stack' = rest
                      /\ UNCHANGED <<data, processedPixels>>
                 ELSE /\ data' = [data EXCEPT ![index] = Written(currentColor, fillColor)]
                      /\ processedPixels' = processedPixels + 1
                      /\ stack' = PushNeighbors(rest, x, y)
    /\ UNCHANGED <<startColor, fpc, startX, startY, fillColor, tolerance,
                   ret, data0, repeat>>
    /\ UNCHANGED <<clusterVars, detectVars, classifyVars, pageVars>>

\* The loop ends with the stack empty; processedPixels is returned (line 198).
FloodFillReturn ==
    /\ fpc = "loop"
    /\ stack = << >>
    /\ fpc' = "done"
    /\ ret' = processedPixels
    /\ UNCHANGED <<data, stack, processedPixels, startColor, startX, startY,
                   fillColor, tolerance, data0, repeat>>
    /\ UNCHANGED <<clusterVars, detectVars, classifyVars, pageVars>>

-----------------------------------------------------------------------------
(* clusterPixels *)

\* Bounds of the clustering model: pixel sequences of up to MaxPixels pixels
\* (repetitions and any order allowed) over a ClusterWidth x ClusterHeight grid.
ClusterWidth  == 3
ClusterHeight == 2
MaxPixels     == 4
MaxDistance   == 2

ClusterGrid == (0 .. ClusterWidth - 1) \X (0 .. ClusterHeight - 1)

\* The distance test with < in place of <=.
WithinDistanceStrict(p, q, d) ==
    (p[1] - q[1]) * (p[1] - q[1]) + (p[2] - q[2]) * (p[2] - q[2]) < d * d

\* Math.sqrt(dx ** 2 + dy ** 2) <= maxDistance, for an integer maxDistance.
WithinDistance(p, q, d) ==
    (p[1] - q[1]) * (p[1] - q[1]) + (p[2] - q[2]) * (p[2] - q[2]) <= d * d

\* The for loop over the neighbours of current (lines 839-847): the pixels of
\* the input, in input order, not yet visited and within maxDistance.
NeighborsToQueue(current, visited, pxs, d) ==
    SelectSeq(pxs, LAMBDA n : n \notin visited /\ WithinDistance(current, n, d))

\* The while loop without the test visited.has(currentKey) of line 834.
RECURSIVE BfsLoopUnchecked(_, _, _, _, _)
BfsLoopUnchecked(queue, visited, cluster, pxs, d) ==
    IF queue = << >>
      THEN [visited |-> visited, cluster |-> cluster]
      ELSE LET current == Head(queue)
               seen    == visited \cup {current}
           IN  BfsLoopUnchecked(Tail(queue) \o NeighborsToQueue(current, seen, pxs, d),
                                seen, Append(cluster, current), pxs, d)

\* The while loop over the queue (lines 830-848).  The visited set holds the
\* keys `${x},${y}`, which name integer coordinates one to one; the model
\* keeps the coordinate pair itself.
RECURSIVE BfsLoop(_, _, _, _, _)
BfsLoop(queue, visited, cluster, pxs, d) ==
    IF queue = << >>
      THEN [visited |-> visited, cluster |-> cluster]
      ELSE LET current == Head(queue)
               rest    == Tail(queue)
           IN  IF current \in visited
                 THEN BfsLoop(rest, visited, cluster, pxs, d)
                 ELSE LET seen == visited \cup {current}
                      IN  BfsLoop(rest \o NeighborsToQueue(current, seen, pxs, d),
                                  seen, Append(cluster, current), pxs, d)

\* The for loop with clusters.unshift(cluster) in place of clusters.push.
RECURSIVE ClusterLoopUnshift(_, _, _, _, _)
ClusterLoopUnshift(i, visited, acc, pxs, d) ==
    IF i > Len(pxs)
      THEN acc
      ELSE IF pxs[i] \in visited
        THEN ClusterLoopUnshift(i + 1, visited, acc, pxs, d)
        ELSE LET r == BfsLoop(<< pxs[i] >>, visited, << >>, pxs, d)
             IN  ClusterLoopUnshift(i + 1, r.visited,
                                    IF Len(r.cluster) > 0 THEN << r.cluster >> \o acc
                                                          ELSE acc,
                                    pxs, d)

\* The for loop over the input pixels (lines 823-853).
RECURSIVE ClusterLoop(_, _, _, _, _)
ClusterLoop(i, visited, acc, pxs, d) ==
    IF i > Len(pxs)
      THEN acc
      ELSE IF pxs[i] \in visited
        THEN ClusterLoop(i + 1, visited, acc, pxs, d)
        ELSE LET r == BfsLoop(<< pxs[i] >>, visited, << >>, pxs, d)
             IN  ClusterLoop(i + 1, r.visited,
                             IF Len(r.cluster) > 0 THEN Append(acc, r.cluster)
                                                   ELSE acc,
                             pxs, d)

clusterPixels(pxs, d) == ClusterLoop(1, {}, << >>, pxs, d)

\* No cluster has been handed to calculateBounds yet.
NoBounds == [minX |-> 0, minY |-> 0, maxX |-> 0, maxY |-> 0]

InitBoundsIdle ==
    /\ cbCluster = << >>
    /\ cbBounds = NoBounds
    /\ cbPolygon = << >>

InitClusterIdle ==
    /\ pixels = << >>
    /\ maxDistance = 0
    /\ clusters = << >>
    /\ cpc = "idle"
    /\ InitBoundsIdle

\* One call clusterPixels(pixels, maxDistance).
ClusterRun ==
    /\ cpc = "ready"
    /\ clusters' = clusterPixels(pixels, maxDistance)
    /\ cpc' = "done"
    /\ UNCHANGED <<pixels, maxDistance, boundsVars>>
    /\ UNCHANGED <<fillVars, detectVars, classifyVars, pageVars>>

-----------------------------------------------------------------------------
(* detectBuildingsByColor, from the clustering of the nearby pixels on *)

\* Bounds of the detection model: the nearby building pixels are up to
\* MaxNearby pixels of a DetectWidth x DetectHeight window of the tile.
DetectWidth  == 9
DetectHeight == 1
MaxNearby    == 6

\* clusterPixels(nearbyBuildingPixels, 3), line 1004.
ClusterRadius == 3
\* if (cluster.length < 5) continue, line 1018.
MinClusterSize == 5
\* Pixels per tile side in (tileX * 256 + x), lines 1027-1028.
TileSize == 256

DetectGrid == (0 .. DetectWidth - 1) \X (0 .. DetectHeight - 1)

\* Tile indices at zoom 18: the origin tile and the tile of Tokyo Station.
TileIndices == { <<0, 0>>, <<232847, 103226>> }

\* The scan of lines 931-945 visits y from top to bottom and, inside a row,
\* x from left to right; filter keeps that order.
ScanBefore(p, q) == p[2] < q[2] \/ (p[2] = q[2] /\ p[1] < q[1])

RECURSIVE ScanOrder(_)
ScanOrder(S) ==
    IF S = {}
      THEN << >>
      ELSE LET first == CHOOSE p \in S : \A q \in S \ {p} : ScanBefore(p, q)
           IN  << first >> \o ScanOrder(S \ {first})

\* calculateBounds (lines 859-870): the extreme coordinates of the pixels.
\* It is only applied to clusters that hold a pixel.
calculateBounds(pxs) ==
    LET xs == { pxs[i][1] : i \in DOMAIN pxs }
        ys == { pxs[i][2] : i \in DOMAIN pxs }
    IN  [ minX |-> CHOOSE v \in xs : \A w \in xs : v <= w,
          minY |-> CHOOSE v \in ys : \A w \in ys : v <= w,
          maxX |-> CHOOSE v \in xs : \A w \in xs : v >= w,
          maxY |-> CHOOSE v \in ys : \A w \in ys : v >= w ]

\* The corners in the order (minX,minY), (minX,maxY), (maxX,maxY), (maxX,minY).
boundsToPolygonTurned(bounds) ==
    << <<bounds.minX, bounds.minY>>,
       <<bounds.minX, bounds.maxY>>,
       <<bounds.maxX, bounds.maxY>>,
       <<bounds.maxX, bounds.minY>>,
       <<bounds.minX, bounds.minY>> >>

\* boundsToPolygon (lines 873-881).
boundsToPolygon(bounds) ==
    << <<bounds.minX, bounds.minY>>,
       <<bounds.maxX, bounds.minY>>,
       <<bounds.maxX, bounds.maxY>>,
       <<bounds.minX, bounds.maxY>>,
       <<bounds.minX, bounds.minY>> >>

\* const bounds = calculateBounds(cluster); const polygon =
\* boundsToPolygon(bounds) (lines 1020-1021), for the k-th cluster that
\* clusterPixels returned.
BoundsRun(k) ==
    /\ cpc = "done"
    /\ k \in DOMAIN clusters
    /\ cbCluster' = clusters[k]
    /\ cbBounds' = calculateBounds(clusters[k])
    /\ cbPolygon' = boundsToPolygon(cbBounds')
    /\ UNCHANGED <<pixels, maxDistance, clusters, cpc>>
    /\ UNCHANGED <<fillVars, detectVars, classifyVars, pageVars>>

\* The map without the offset of the tile: the corners stay pixel offsets.
GeoPolygonLocal(polygon, tile) ==
    [ k \in DOMAIN polygon |-> << polygon[k][1], polygon[k][2] >> ]

\* The map of lines 1025-1034.  pixelLon is an increasing affine function of
\* tileX * 256 + x and pixelLat a strictly decreasing function of
\* tileY * 256 + y; a projected corner is kept as that pair of global pixel
\* coordinates.
GeoPolygon(polygon, tile) ==
    [ k \in DOMAIN polygon |->
        << tile[1] * TileSize + polygon[k][1], tile[2] * TileSize + polygon[k][2] >> ]

\* The feature built for polygons[index] (lines 1064-1073); index counts from
\* 1 here and from 0 in the code, so id is index and clusters[index] of the
\* code is cls[index] here.
FeatureOf(index, coordinates, cls) ==
    [ id          |-> index,
      coordinates |-> coordinates,
      pixelCount  |-> IF index \in DOMAIN cls THEN Len(cls[index]) ELSE 0 ]

\* The size test with <= in place of <.
TooSmallOffByOne(cluster) == Len(cluster) <= MinClusterSize

\* if (cluster.length < 5) continue, line 1018.
TooSmall(cluster) == Len(cluster) < MinClusterSize

\* What is kept of a finished call: how it failed, the stages that were
\* executed, the kind of value returned and the number of its features.
CallRecord(failed, stages, returned, nFeatures) ==
    [failure |-> failed, ran |-> stages, result |-> returned, features |-> nFeatures]

NoCall == CallRecord("none", {}, "unset", 0)

\* imageData before the tile is decoded; no decoded image has width 0.
NoImage == [width |-> 0, height |-> 0, data |-> << >>]

\* The counters and positions of debugInfo (lines 971-981); the strings
\* shown next to them (pixelColor, tileUrl, originalCoordinates) are left out.
DebugInfo(nBuilding, nBoundary, marker, nNearby, nClusters, tileCoordinates) ==
    [ buildingPixels       |-> nBuilding,
      boundaryPixels       |-> nBoundary,
      markerPosition       |-> marker,
      nearbyBuildingPixels |-> nNearby,
      clustersGenerated    |-> nClusters,
      tileCoordinates      |-> tileCoordinates ]

\* debugInfo === null, its value until setDebugInfo of line 971.
NoDebug == DebugInfo(-1, -1, <<-1, -1>>, -1, -1, <<-1, -1>>)

\* setDebugInfo(prev => prev ? { ...prev, nearbyBuildingPixels } : null), line 993.
WithNearby(prev, nNearby) ==
    IF prev = NoDebug THEN NoDebug ELSE [prev EXCEPT !.nearbyBuildingPixels = nNearby]

\* setDebugInfo(prev => prev ? { ...prev, clustersGenerated } : null), line 1009.
WithClusters(prev, nClusters) ==
    IF prev = NoDebug THEN NoDebug ELSE [prev EXCEPT !.clustersGenerated = nClusters]

InitDetectIdle ==
    /\ tileX = 0
    /\ tileY = 0
    /\ nearbyBuildingPixels = << >>
    /\ dclusters = << >>
    /\ polygons = << >>
    /\ clusterIdx = 0
    /\ features = << >>
    /\ dpc = "idle"
    /\ lat = 0
    /\ lon = 0
    /\ imageData = NoImage
    /\ buildingPixels = << >>
    /\ boundaryPixels = << >>
    /\ pixelX = 0
    /\ pixelY = 0
    /\ debugInfo = NoDebug
    /\ result = "unset"
    /\ ran = {}
    /\ failure = "none"
    /\ prevCall = NoCall
    /\ cpIndex = 0
    /\ cpVisited = {}
    /\ cpCluster = << >>
    /\ cpQueue = << >>
    /\ fbLat = 0
    /\ fbLon = 0
    /\ overpass = [status |-> "unset", elements |-> << >>]
    /\ fbpc = "idle"
    /\ fbResult = [type |-> "unset", features |-> << >>]

\* const clusters = clusterPixels(nearbyBuildingPixels, 3), line 1004.
DetectCluster ==
    /\ dpc = "cluster"
    /\ dclusters' = clusterPixels(nearbyBuildingPixels, ClusterRadius)
    /\ polygons' = << >>
    /\ clusterIdx' = 1
    /\ dpc' = "convert"
    /\ debugInfo' = WithClusters(debugInfo, Len(dclusters'))
    /\ ran' = ran \cup {"cluster"}
    /\ UNCHANGED <<tileX, tileY, nearbyBuildingPixels, features>>
    /\ UNCHANGED <<lat, lon, scanVars, result, fetchVars>>
    /\ UNCHANGED <<stepVars, prevCall, failure>>
    /\ UNCHANGED <<fillVars, clusterVars, classifyVars, pageVars>>

\* One iteration of for (const cluster of clusters), lines 1017-1046.
DetectConvert ==
    /\ dpc = "convert"
    /\ clusterIdx <= Len(dclusters)
    /\ LET cluster == dclusters[clusterIdx]
       IN  IF TooSmall(cluster)
             THEN polygons' = polygons
             ELSE polygons' =
                    Append(polygons,
                           GeoPolygon(boundsToPolygon(calculateBounds(cluster)),
                                      <<tileX, tileY>>))
    /\ clusterIdx' = clusterIdx + 1
    /\ ran' = ran \cup {"convert"}
    /\ UNCHANGED <<tileX, tileY, nearbyBuildingPixels, dclusters, features, dpc>>
    /\ UNCHANGED <<lat, lon, scanVars, debugInfo, result, fetchVars>>
    /\ UNCHANGED <<stepVars, prevCall, failure>>
    /\ UNCHANGED <<fillVars, clusterVars, classifyVars, pageVars>>

\* The returned FeatureCollection, lines 1062-1074.
DetectReturn ==
    /\ dpc = "convert"
    /\ clusterIdx > Len(dclusters)
    /\ features' = [ index \in DOMAIN polygons |->
                       FeatureOf(index, polygons[index], dclusters) ]
    /\ dpc' = "done"
    /\ result' = "FeatureCollection"
    /\ UNCHANGED <<tileX, tileY, nearbyBuildingPixels, dclusters, polygons, clusterIdx>>
    /\ UNCHANGED <<lat, lon, scanVars, debugInfo, ran, fetchVars>>
    /\ UNCHANGED <<stepVars, prevCall, failure>>
    /\ UNCHANGED <<fillVars, clusterVars, classifyVars, pageVars>>

-----------------------------------------------------------------------------
(* isBuildingColor *)

RGB(r, g, b) == [r |-> r, g |-> g, b |-> b]

\* BUILDING_COLORS of the map page (lines 774-787).
BUILDING_COLORS ==
    [ building |-> << RGB(255, 230, 190), RGB(254, 229, 189), RGB(255, 231, 191) >>,
      boundary |-> << RGB(255, 178, 128), RGB(255, 212, 169), RGB(255, 135, 75) >> ]

\* BUILDING_COLORS of the flood-fill page (lines 45-65).
BUILDING_COLORS_FF ==
    [ building |-> << RGB(255, 230, 190), RGB(254, 229, 189), RGB(255, 231, 191),
                      RGB(255, 235, 205), RGB(255, 225, 185), RGB(255, 240, 210),
                      RGB(255, 220, 180) >>,
      boundary |-> << RGB(255, 178, 128), RGB(255, 212, 169), RGB(255, 135, 75),
                      RGB(255, 165, 115), RGB(255, 190, 140), RGB(255, 150, 100) >> ]

\* The default of the tolerance parameter (lines 76 and 798).
DefaultTolerance == 50

Abs(n) == IF n < 0 THEN -n ELSE n

\* colorSimilarity without Math.abs: the signed sum of the differences.
colorSimilaritySigned(color1, color2) ==
    (color1.r - color2.r) + (color1.g - color2.g) + (color1.b - color2.b)

\* colorSimilarity (lines 68-73 and 790-795): the sum of the absolute
\* channel differences.
colorSimilarity(color1, color2) ==
    Abs(color1.r - color2.r) + Abs(color1.g - color2.g) + Abs(color1.b - color2.b)

\* The loop with the comparison turned round: >= in place of <=.
RECURSIVE LoopMatchesReversed(_, _, _, _)
LoopMatchesReversed(samples, i, color, tol) ==
    IF i > Len(samples)
      THEN FALSE
      ELSE IF colorSimilarity(color, samples[i]) >= tol
        THEN TRUE
        ELSE LoopMatchesReversed(samples, i + 1, color, tol)

\* for (const sample of samples) if (colorSimilarity(color, sample) <= tolerance)
\* return ...: TRUE when the loop returns at some sample, from position i on.
RECURSIVE LoopMatches(_, _, _, _)
LoopMatches(samples, i, color, tol) ==
    IF i > Len(samples)
      THEN FALSE
      ELSE IF colorSimilarity(color, samples[i]) <= tol
        THEN TRUE
        ELSE LoopMatches(samples, i + 1, color, tol)

\* isBuildingColor of the map page (lines 798-816).
isBuildingColor(r, g, b, tol) ==
    IF LoopMatches(BUILDING_COLORS.building, 1, RGB(r, g, b), tol)
      THEN "building"
      ELSE IF LoopMatches(BUILDING_COLORS.boundary, 1, RGB(r, g, b), tol)
        THEN "boundary"
        ELSE "none"

\* isBuildingColor of the flood-fill page (lines 76-94).
isBuildingColorFF(r, g, b, tol) ==
    IF LoopMatches(BUILDING_COLORS_FF.building, 1, RGB(r, g, b), tol)
      THEN "building"
      ELSE IF LoopMatches(BUILDING_COLORS_FF.boundary, 1, RGB(r, g, b), tol)
        THEN "boundary"
        ELSE "none"

\* Channel values and tolerances the classifier is run on.
ClassifyReds   == { 200, 254, 255 }
ClassifyGreens == { 135, 178, 200, 212, 220, 225, 229, 230, 231, 240 }
ClassifyBlues  == { 75, 128, 150, 169, 180, 185, 189, 190, 191, 210 }
ClassifyAlphas == { 0, 255 }
ClassifyTolerances == { 0, 1, 2, 39, DefaultTolerance, 100 }

InitClassifyIdle ==
    /\ colorIn = RGBA(0, 0, 0, 0)
    /\ tolIn = 0
    /\ colorType = "unset"
    /\ colorTypeFF = "unset"
    /\ kpc = "idle"
    /\ tolPrev = 0
    /\ typePrev = "unset"
    /\ typePrevFF = "unset"

\* isBuildingColor(r, g, b, tolerance) applied to the pixel, as at line 938
\* (map page).
ClassifyMap ==
    /\ kpc \in {"ready", "ff"}
    /\ colorType' = isBuildingColor(colorIn.r, colorIn.g, colorIn.b, tolIn)
    /\ kpc' = IF kpc = "ready" THEN "map" ELSE "done"
    /\ UNCHANGED <<colorIn, tolIn, colorTypeFF, tolPrev, typePrev, typePrevFF>>
    /\ UNCHANGED <<fillVars, clusterVars, detectVars, pageVars>>

\* isBuildingColor(r, g, b, tolerance) applied to the pixel, as at line 417
\* (flood-fill page).
ClassifyFF ==
    /\ kpc \in {"ready", "map"}
    /\ colorTypeFF' = isBuildingColorFF(colorIn.r, colorIn.g, colorIn.b, tolIn)
    /\ kpc' = IF kpc = "ready" THEN "ff" ELSE "done"
    /\ UNCHANGED <<colorIn, tolIn, colorType, tolPrev, typePrev, typePrevFF>>
    /\ UNCHANGED <<fillVars, clusterVars, detectVars, pageVars>>

\* The same pixel is classified again with another tolerance: the tolerance
\* is a parameter of isBuildingColor (lines 76 and 798), set on the flood-fill
\* page by the slider (lines 564-573) between two runs.
ClassifyAgain(tol) ==
    /\ kpc = "done"
    /\ tol # tolIn
    /\ tolPrev' = tolIn
    /\ typePrev' = colorType
    /\ typePrevFF' = colorTypeFF
    /\ tolIn' = tol
    /\ colorType' = "unset"
    /\ colorTypeFF' = "unset"
    /\ kpc' = "ready"
    /\ UNCHANGED colorIn
    /\ UNCHANGED <<fillVars, clusterVars, detectVars, pageVars>>

-----------------------------------------------------------------------------
(* detectBuildingsByColor, from the call to the filter *)

\* lat and lon hold the query point as its continuous global pixel
\* coordinates at zoom 18, counted in steps of 1/SubPixel pixel:
\*   lon  stands for  (lon + 180) / 360 * n * 256 * SubPixel
\*   lat  stands for  (1 - ln(tan(lat) + 1/cos(lat)) / pi) / 2 * n * 256 * SubPixel
\* Both maps are monotone bijections on |lat| < 85.05, -180 <= lon < 180, and
\* the arithmetic below is the exact arithmetic of the formulas of the code.
SubPixel == 2

\* const markerRadius = 30, line 984.
MarkerRadius == 30

\* Math.floor((lon + 180) / 360 * n), lines 891-892.
TileOf(c) == c \div (TileSize * SubPixel)

\* The pixel offset with Math.round in place of Math.floor.
PixelOfRounded(c, t) == (c - t * TileSize * SubPixel + SubPixel \div 2) \div SubPixel

\* Math.floor(((lon + 180) / 360 * n - tileX) * 256), lines 950-951.
PixelOf(c, t) == (c - t * TileSize * SubPixel) \div SubPixel

\* axios.get rejects on a network error and on a status outside 2xx (line 899).
FetchOutcomes == { "ok", "network error", "status not 2xx" }

\* img.onerror rejects (line 907); getContext('2d') may return null, and
\* then imageData is undefined (lines 917-925).
DecodeOutcomes == { "ok", "image error", "no context" }

\* A catch block that throws the error on.
OnErrorRethrow(error) == "exception"

\* catch (error) { console.error(...); return null; }, lines 1076-1079.
OnError(error) == "null"

\* The pixel coordinates in the order of the two for loops of lines 931-932.
ScanSeq(img) ==
    [ k \in 1 .. img.width * img.height |->
        << (k - 1) % img.width, (k - 1) \div img.width >> ]

\* isBuildingColor(r, g, b) of the pixel at (x, y), lines 933-938; the
\* tolerance takes its default.
ColorTypeAt(img, p) ==
    LET c == img.data[p[2] * img.width + p[1]]
    IN  isBuildingColor(c.r, c.g, c.b, DefaultTolerance)

\* The pixels pushed to buildingPixels (type 'building') or to
\* boundaryPixels (type 'boundary') by the scan, lines 931-945.
PixelsOfType(img, type) ==
    SelectSeq(ScanSeq(img), LAMBDA p : ColorTypeAt(img, p) = type)

\* The bounds check without its upper limits.
MarkerOutOfBoundsBelow(img, px, py) == px < 0 \/ py < 0

\* The bounds check of the query pixel, line 956.
MarkerOutOfBounds(img, px, py) ==
    px < 0 \/ px >= img.width \/ py < 0 \/ py >= img.height

\* The radius test with < in place of <=.
NearMarkerStrict(p, px, py) ==
    (p[1] - px) * (p[1] - px) + (p[2] - py) * (p[2] - py) < MarkerRadius * MarkerRadius

\* Math.sqrt((x - pixelX) ** 2 + (y - pixelY) ** 2) <= markerRadius, lines 986-987.
NearMarker(p, px, py) ==
    (p[1] - px) * (p[1] - px) + (p[2] - py) * (p[2] - py) <= MarkerRadius * MarkerRadius

\* The test of the filtered pixels left out.
NoneNearbyUnchecked(nearby) == FALSE

\* if (nearbyBuildingPixels.length === 0) return null, lines 998-1001.
NoneNearby(nearby) == Len(nearby) = 0

\* Lines 889-893: the index of the tile that holds the point.
DetectStart ==
    /\ dpc = "start"
    /\ tileX' = TileOf(lon)
    /\ tileY' = TileOf(lat)
    /\ dpc' = "fetch"
    /\ UNCHANGED <<nearbyBuildingPixels, dclusters, polygons, clusterIdx, features>>
    /\ UNCHANGED <<lat, lon, scanVars, debugInfo, result, ran, fetchVars>>
    /\ UNCHANGED <<stepVars, prevCall, failure>>
    /\ UNCHANGED <<fillVars, clusterVars, classifyVars, pageVars>>

\* await axios.get(tileUrl, ...), line 899.
DetectFetch(outcome) ==
    /\ dpc = "fetch"
    /\ IF outcome = "ok"
         THEN /\ dpc' = "decode"
              /\ result' = result
         ELSE /\ dpc' = "done"
              /\ result' = OnError(outcome)
    /\ failure' = IF outcome = "ok" THEN failure ELSE outcome
    /\ ran' = ran \cup {"fetch"}
    /\ UNCHANGED <<tileX, tileY, nearbyBuildingPixels, dclusters, polygons, clusterIdx, features>>
    /\ UNCHANGED <<lat, lon, scanVars, debugInfo, fetchVars>>
    /\ UNCHANGED <<stepVars, prevCall>>
    /\ UNCHANGED <<fillVars, clusterVars, classifyVars, pageVars>>

\* Lines 900-925: the image img that the server sent is loaded and drawn,
\* its pixels are read.
DetectDecode(outcome, img) ==
    /\ dpc = "decode"
    /\ IF outcome = "ok"
         THEN /\ imageData' = img
              /\ dpc' = "scan"
              /\ result' = result
         ELSE /\ imageData' = imageData
              /\ dpc' = "done"
              /\ result' = IF outcome = "no context" THEN "null" ELSE OnError(outcome)
    /\ failure' = IF outcome = "ok" THEN failure ELSE outcome
    /\ ran' = ran \cup {"decode"}
    /\ UNCHANGED <<tileX, tileY, nearbyBuildingPixels, dclusters, polygons, clusterIdx, features>>
    /\ UNCHANGED <<lat, lon, buildingPixels, boundaryPixels, pixelX, pixelY>>
    /\ UNCHANGED <<debugInfo, fetchVars>>
    /\ UNCHANGED <<stepVars, prevCall>>
    /\ UNCHANGED <<fillVars, clusterVars, classifyVars, pageVars>>

\* The scan of lines 928-945.
DetectScan ==
    /\ dpc = "scan"
    /\ buildingPixels' = PixelsOfType(imageData, "building")
    /\ boundaryPixels' = PixelsOfType(imageData, "boundary")
    /\ dpc' = "marker"
    /\ ran' = ran \cup {"scan"}
    /\ UNCHANGED <<tileX, tileY, nearbyBuildingPixels, dclusters, polygons, clusterIdx, features>>
    /\ UNCHANGED <<lat, lon, imageData, pixelX, pixelY>>
    /\ UNCHANGED <<debugInfo, result, fetchVars>>
    /\ UNCHANGED <<stepVars, prevCall, failure>>
    /\ UNCHANGED <<fillVars, clusterVars, classifyVars, pageVars>>

\* Lines 900-945 in one step, for a full 256 x 256 tile: the image img is
\* decoded and scanned at once. Nothing after the scan reads the pixel data,
\* lines 956-959 read the image's size only, so the state keeps the size.
DetectDecodeScan(outcome, img) ==
    /\ dpc = "decode"
    /\ IF outcome = "ok"
         THEN /\ imageData' = [width |-> img.width, height |-> img.height, data |-> << >>]
              /\ buildingPixels' = PixelsOfType(img, "building")
              /\ boundaryPixels' = PixelsOfType(img, "boundary")
              /\ dpc' = "marker"
              /\ result' = result
              /\ ran' = ran \cup {"decode", "scan"}
         ELSE /\ UNCHANGED <<imageData, buildingPixels, boundaryPixels>>
              /\ dpc' = "done"
              /\ result' = IF outcome = "no context" THEN "null" ELSE OnError(outcome)
              /\ ran' = ran \cup {"decode"}
    /\ failure' = IF outcome = "ok" THEN failure ELSE outcome
    /\ UNCHANGED <<tileX, tileY, nearbyBuildingPixels, dclusters, polygons, clusterIdx, features>>
    /\ UNCHANGED <<lat, lon, pixelX, pixelY>>
    /\ UNCHANGED <<debugInfo, fetchVars>>
    /\ UNCHANGED <<stepVars, prevCall>>
    /\ UNCHANGED <<fillVars, clusterVars, classifyVars, pageVars>>

\* Lines 949-981: the query pixel, its bounds check and the first debugInfo.
DetectMarker ==
    /\ dpc = "marker"
    /\ pixelX' = PixelOf(lon, tileX)
    /\ pixelY' = PixelOf(lat, tileY)
    /\ IF MarkerOutOfBounds(imageData, pixelX', pixelY')
         THEN /\ dpc' = "done"
              /\ result' = "null"
              /\ debugInfo' = debugInfo
         ELSE /\ dpc' = "filter"
              /\ result' = result
              /\ debugInfo' = DebugInfo(Len(buildingPixels), Len(boundaryPixels),
                                        <<pixelX', pixelY'>>, 0, 0, <<tileX, tileY>>)
    /\ ran' = ran \cup {"marker"}
    /\ UNCHANGED <<tileX, tileY, nearbyBuildingPixels, dclusters, polygons, clusterIdx, features>>
    /\ UNCHANGED <<lat, lon, imageData, buildingPixels, boundaryPixels>>
    /\ UNCHANGED fetchVars
    /\ UNCHANGED <<stepVars, prevCall, failure>>
    /\ UNCHANGED <<fillVars, clusterVars, classifyVars, pageVars>>

\* Lines 983-1001: the building pixels near the query pixel.
DetectFilter ==
    /\ dpc = "filter"
    /\ nearbyBuildingPixels' =
         SelectSeq(buildingPixels, LAMBDA p : NearMarker(p, pixelX, pixelY))
    /\ debugInfo' = WithNearby(debugInfo, Len(nearbyBuildingPixels'))
    /\ IF NoneNearby(nearbyBuildingPixels')
         THEN /\ dpc' = "done"
              /\ result' = "null"
         ELSE /\ dpc' = "cluster"
              /\ result' = result
    /\ ran' = ran \cup {"filter"}
    /\ UNCHANGED <<tileX, tileY, dclusters, polygons, clusterIdx, features>>
    /\ UNCHANGED <<lat, lon, scanVars, fetchVars>>
    /\ UNCHANGED <<stepVars, prevCall, failure>>
    /\ UNCHANGED <<fillVars, clusterVars, classifyVars, pageVars>>

\* detectBuildingsByColor is called once more for the same point: the locals
\* of the call start afresh, the debugInfo of the component stays.
DetectAgain ==
    /\ dpc = "done"
    /\ prevCall = NoCall
    /\ prevCall' = CallRecord(failure, ran, result, Len(features))
    /\ dpc' = "start"
    /\ tileX' = 0
    /\ tileY' = 0
    /\ nearbyBuildingPixels' = << >>
    /\ dclusters' = << >>
    /\ polygons' = << >>
    /\ clusterIdx' = 0
    /\ features' = << >>
    /\ imageData' = NoImage
    /\ buildingPixels' = << >>
    /\ boundaryPixels' = << >>
    /\ pixelX' = 0
    /\ pixelY' = 0
    /\ result' = "unset"
    /\ ran' = {}
    /\ failure' = "none"
    /\ UNCHANGED <<lat, lon, debugInfo, stepVars, fetchVars>>
    /\ UNCHANGED <<fillVars, clusterVars, classifyVars, pageVars>>

-----------------------------------------------------------------------------
(* clusterPixels(nearbyBuildingPixels, 3), one loop iteration per step *)

\* Lines 820-821 of the call at line 1004.
ClusterBegin ==
    /\ dpc = "cluster"
    /\ dclusters' = << >>
    /\ cpVisited' = {}
    /\ cpIndex' = 1
    /\ dpc' = "for"
    /\ ran' = ran \cup {"cluster"}
    /\ UNCHANGED <<cpCluster, cpQueue>>
    /\ UNCHANGED <<tileX, tileY, nearbyBuildingPixels, polygons, clusterIdx, features>>
    /\ UNCHANGED <<lat, lon, scanVars, debugInfo, result, fetchVars>>
    /\ UNCHANGED <<prevCall, failure>>
    /\ UNCHANGED <<fillVars, clusterVars, classifyVars, pageVars>>

\* for (const pixel of pixels), lines 823-828: a visited pixel is passed
\* over, another one starts a cluster.
ClusterFor ==
    /\ dpc = "for"
    /\ cpIndex <= Len(nearbyBuildingPixels)
    /\ LET pixel == nearbyBuildingPixels[cpIndex]
       IN  IF pixel \in cpVisited
             THEN /\ cpIndex' = cpIndex + 1
                  /\ UNCHANGED <<cpCluster, cpQueue, dpc>>
             ELSE /\ cpCluster' = << >>
                  /\ cpQueue' = << pixel >>
                  /\ dpc' = "while"
                  /\ UNCHANGED cpIndex
    /\ UNCHANGED <<cpVisited, dclusters>>
    /\ UNCHANGED <<tileX, tileY, nearbyBuildingPixels, polygons, clusterIdx, features>>
    /\ UNCHANGED <<lat, lon, scanVars, debugInfo, result, ran, fetchVars>>
    /\ UNCHANGED <<prevCall, failure>>
    /\ UNCHANGED <<fillVars, clusterVars, classifyVars, pageVars>>

\* One iteration of while (queue.length > 0), lines 830-848.
ClusterWhile ==
    /\ dpc = "while"
    /\ cpQueue # << >>
    /\ LET current == Head(cpQueue)
           rest    == Tail(cpQueue)
       IN  IF current \in cpVisited
             THEN /\ cpQueue' = rest
                  /\ UNCHANGED <<cpVisited, cpCluster>>
             ELSE /\ cpVisited' = cpVisited \cup {current}
                  /\ cpCluster' = Append(cpCluster, current)
                  /\ cpQueue' = rest \o NeighborsToQueue(current, cpVisited',
                                                         nearbyBuildingPixels, ClusterRadius)
    /\ UNCHANGED <<cpIndex, dclusters, dpc>>
    /\ UNCHANGED <<tileX, tileY, nearbyBuildingPixels, polygons, clusterIdx, features>>
    /\ UNCHANGED <<lat, lon, scanVars, debugInfo, result, ran, fetchVars>>
    /\ UNCHANGED <<prevCall, failure>>
    /\ UNCHANGED <<fillVars, clusterVars, classifyVars, pageVars>>

\* The queue is empty: if (cluster.length > 0) clusters.push(cluster), lines
\* 850-852, and the for loop goes on.
ClusterPush ==
    /\ dpc = "while"
    /\ cpQueue = << >>
    /\ dclusters' = IF Len(cpCluster) > 0 THEN Append(dclusters, cpCluster) ELSE dclusters
    /\ cpIndex' = cpIndex + 1
    /\ dpc' = "for"
    /\ UNCHANGED <<cpVisited, cpCluster, cpQueue>>
    /\ UNCHANGED <<tileX, tileY, nearbyBuildingPixels, polygons, clusterIdx, features>>
    /\ UNCHANGED <<lat, lon, scanVars, debugInfo, result, ran, fetchVars>>
    /\ UNCHANGED <<prevCall, failure>>
    /\ UNCHANGED <<fillVars, clusterVars, classifyVars, pageVars>>

\* return clusters (line 855), then lines 1006-1015.
ClusterEnd ==
    /\ dpc = "for"
    /\ cpIndex > Len(nearbyBuildingPixels)
    /\ polygons' = << >>
    /\ clusterIdx' = 1
    /\ dpc' = "convert"
    /\ debugInfo' = WithClusters(debugInfo, Len(dclusters))
    /\ UNCHANGED <<tileX, tileY, nearbyBuildingPixels, dclusters, features>>
    /\ UNCHANGED <<lat, lon, scanVars, result, ran, stepVars, fetchVars>>
    /\ UNCHANGED <<prevCall, failure>>
    /\ UNCHANGED <<fillVars, clusterVars, classifyVars, pageVars>>

-----------------------------------------------------------------------------
(* fetchBuildings *)

\* The elements an Overpass answer may hold: ways with and without geometry,
\* nodes and relations.
ElementKinds ==
    { [id |-> 11, type |-> "way", geometry |-> TRUE],
      [id |-> 12, type |-> "way", geometry |-> FALSE],
      [id |-> 13, type |-> "node", geometry |-> FALSE],
      [id |-> 14, type |-> "relation", geometry |-> FALSE] }

\* element.type === 'way' && element.geometry, line 1272.
IsBuildingWay(element) == element.type = "way" /\ element.geometry

\* Lines 1271-1284: the features made of the elements that pass the filter.
OsmFeatures(elements) ==
    LET ways == SelectSeq(elements, IsBuildingWay)
    IN  [ k \in DOMAIN ways |-> [id |-> ways[k].id, source |-> "OpenStreetMap"] ]

\* response.data.elements && response.data.elements.length > 0, line 1269.
HasElements(response) ==
    /\ response.status = "ok"
    /\ Len(response.elements) > 0

\* fetchBuildings up to its return or its call of detectBuildingsByColor
\* (lines 1250-1301): a rejected request is caught at line 1296.
FetchBuildingsCall ==
    /\ fbpc = "call"
    /\ IF HasElements(overpass)
         THEN /\ fbResult' = [type |-> "FeatureCollection",
                              features |-> OsmFeatures(overpass.elements)]
              /\ fbpc' = "done"
              /\ UNCHANGED <<lat, lon, dpc>>
         ELSE /\ lat' = fbLat
              /\ lon' = fbLon
              /\ dpc' = "start"
              /\ fbpc' = "detect"
              /\ UNCHANGED fbResult
    /\ UNCHANGED <<fbLat, fbLon, overpass>>
    /\ UNCHANGED <<tileX, tileY, nearbyBuildingPixels, dclusters, polygons, clusterIdx, features>>
    /\ UNCHANGED <<scanVars, debugInfo, result, ran>>
    /\ UNCHANGED <<stepVars, prevCall, failure>>
    /\ UNCHANGED <<fillVars, clusterVars, classifyVars, pageVars>>

\* return await detectBuildingsByColor(lat, lon), lines 1294 and 1301.
FetchBuildingsReturn ==
    /\ fbpc = "detect"
    /\ dpc = "done"
    /\ fbResult' = [type |-> result, features |-> features]
    /\ fbpc' = "done"
    /\ UNCHANGED <<fbLat, fbLon, overpass>>
    /\ UNCHANGED <<tileX, tileY, nearbyBuildingPixels, dclusters, polygons, clusterIdx, features, dpc>>
    /\ UNCHANGED <<lat, lon, scanVars, debugInfo, result, ran>>
    /\ UNCHANGED <<stepVars, prevCall, failure>>
    /\ UNCHANGED <<fillVars, clusterVars, classifyVars, pageVars>>

-----------------------------------------------------------------------------
(* FloodFillTestPage: the address search and the effects that follow it *)

\* Bound of the page model: up to MaxSearches searches succeed.
MaxSearches == 2

\* markerPosition before the first successful search (useState(null)).
Null == << >>

\* The canvas before any drawing has finished, or after its size was set.
Blank == [center |-> Null, marker |-> Null]

\* Texts of the address input: empty, blank, and two addresses.
Addresses == { "", " ", "Tokyo Station", "Osaka Station" }

\* address.trim()
Trim(a) == IF a = " " THEN "" ELSE a

\* Coordinates <<lat, lon>> in millionths of a degree: the initial centre of
\* line 40 and what the geocoder may give for an address.
InitialCenter == << 35676200, 139650300 >>
Coordinates   == { << 35681236, 139767125 >>, << 34702485, 135495951 >> }

\* What handleGeocode (lines 107-125) yields: the first result's location
\* when the answer is OK with a result, otherwise null after a status line.
GeocodeOutcomes ==
    { [kind |-> "OK", location |-> c] : c \in Coordinates }
      \cup { [kind |-> "ZERO_RESULTS", location |-> Null],
              [kind |-> "error", location |-> Null] }

\* The two effects of lines 466-481 and 484-490; both depend on center and
\* on drawMapTileWithMarker, which depends on markerPosition.
PageEffects == { "initial", "redraw" }

InitPageIdle ==
    /\ address = ""
    /\ status = "idle"
    /\ isProcessing = FALSE
    /\ center = InitialCenter
    /\ mapKey = 0
    /\ markerPosition = Null
    /\ searching = {}
    /\ effects = {}
    /\ drawing = {}
    /\ canvas = Blank
    /\ floodFilledAt = Null

\* onChange of the address input (line 512); the input is disabled while
\* isProcessing.
SetAddress(a) ==
    /\ ~isProcessing
    /\ a # address
    /\ address' = a
    /\ UNCHANGED <<status, isProcessing, center, mapKey, markerPosition,
                   searching, effects, drawing, canvas, floodFilledAt>>
    /\ UNCHANGED <<fillVars, clusterVars, detectVars, classifyVars>>

\* handleSearch up to its await (lines 442-448), from the button or the
\* Enter key.
HandleSearch ==
    /\ ~isProcessing
    /\ IF Trim(address) = ""
         THEN /\ status' = "enter an address"
              /\ UNCHANGED searching
         ELSE /\ status' = "searching"
              /\ searching' = searching \cup {address}
    /\ UNCHANGED <<address, isProcessing, center, mapKey, markerPosition,
                   effects, drawing, canvas, floodFilledAt>>
    /\ UNCHANGED <<fillVars, clusterVars, detectVars, classifyVars>>

\* handleSearch after handleGeocode has answered (lines 449-455): with
\* coordinates the centre, the key and the marker are set, and the render
\* that follows leaves both effects to run, their dependencies having changed.
HandleSearchResume(a, outcome) ==
    /\ a \in searching
    /\ searching' = searching \ {a}
    /\ IF outcome.kind = "OK"
         THEN /\ mapKey < MaxSearches
              /\ center' = outcome.location
              /\ mapKey' = mapKey + 1
              /\ markerPosition' = outcome.location
              /\ effects' = PageEffects
              /\ UNCHANGED status
         ELSE /\ status' = IF outcome.kind = "ZERO_RESULTS" THEN "address not found"
                                                           ELSE "search failed"
              /\ UNCHANGED <<center, mapKey, markerPosition, effects>>
    /\ UNCHANGED <<address, isProcessing, drawing, canvas, floodFilledAt>>
    /\ UNCHANGED <<fillVars, clusterVars, detectVars, classifyVars>>

\* One of the two effects runs (lines 466-481 and 484-490): it starts
\* drawMapTileWithMarker(ctx, center[0], center[1]); the first of them also
\* sets the size of the canvas, which clears it.
RunEffect(e) ==
    /\ e \in effects
    /\ effects' = effects \ {e}
    /\ drawing' = drawing \cup { [center |-> center, marker |-> markerPosition] }
    /\ canvas' = IF e = "initial" THEN Blank ELSE canvas
    /\ UNCHANGED <<address, status, isProcessing, center, mapKey, markerPosition,
                   searching, floodFilledAt>>
    /\ UNCHANGED <<fillVars, clusterVars, detectVars, classifyVars>>

\* drawMapTileWithMarker (lines 339-384) finishes: the tiles around the
\* centre and the marker are on the canvas.
DrawDone(d) ==
    /\ d \in drawing
    /\ drawing' = drawing \ {d}
    /\ canvas' = d
    /\ UNCHANGED <<address, status, isProcessing, center, mapKey, markerPosition,
                   searching, effects, floodFilledAt>>
    /\ UNCHANGED <<fillVars, clusterVars, detectVars, classifyVars>>

\* detectAndFloodFill (lines 387-439) for a pixel of colour c at the
\* coordinate: the pixel is classified with the page's tolerance tol and,
\* unless it is 'none', floodFill runs from it.  No handler and no effect of
\* the page calls it (its only occurrence is its definition), so no
\* specification below takes this step.
DetectAndFloodFill(c, tol) ==
    /\ canvas # Blank
    /\ floodFilledAt' = IF markerPosition # Null THEN markerPosition ELSE center
    /\ status' = IF isBuildingColorFF(c.r, c.g, c.b, tol) = "none"
                    THEN "not a building" ELSE "filled"
    /\ isProcessing' = FALSE
    /\ UNCHANGED <<address, center, mapKey, markerPosition,
                   searching, effects, drawing, canvas>>
    /\ UNCHANGED <<fillVars, clusterVars, detectVars, classifyVars>>

-----------------------------------------------------------------------------
(* Specifications *)

InitFill ==
    /\ data \in [PixelIndices -> PixelColors]
    /\ data0 = data
    /\ InitFillIdle
    /\ InitClusterIdle
    /\ InitDetectIdle
    /\ InitClassifyIdle
    /\ InitPageIdle

NextFill ==
    \/ \E x \in SeedXs, y \in SeedYs, fill \in FillColors, tol \in Tolerances :
          FloodFillCall(x, y, fill, tol)
    \/ FloodFillStep
    \/ FloodFillReturn

SpecFill == InitFill /\ [][NextFill]_vars

\* The loop of floodFill is sequential code: once entered it keeps running.
SpecFillFair ==
    /\ InitFill
    /\ [][NextFill]_vars
    /\ WF_vars(FloodFillStep)
    /\ WF_vars(FloodFillReturn)

EmptyBuffer == [i \in {} |-> RGBA(0, 0, 0, 0)]

InitFillNone ==
    /\ data = EmptyBuffer
    /\ data0 = EmptyBuffer
    /\ InitFillIdle

InitCluster ==
    /\ pixels \in UNION { [1 .. n -> ClusterGrid] : n \in 0 .. MaxPixels }
    /\ maxDistance \in 0 .. MaxDistance
    /\ clusters = << >>
    /\ cpc = "ready"
    /\ InitBoundsIdle
    /\ InitFillNone
    /\ InitDetectIdle
    /\ InitClassifyIdle
    /\ InitPageIdle

NextCluster ==
    \/ ClusterRun
    \/ \E k \in 1 .. MaxPixels : BoundsRun(k)

SpecCluster == InitCluster /\ [][NextCluster]_vars

InitDetect ==
    /\ \E t \in TileIndices : tileX = t[1] /\ tileY = t[2]
    /\ nearbyBuildingPixels \in
         { ScanOrder(S) : S \in { T \in SUBSET DetectGrid :
                                    Cardinality(T) >= 1 /\ Cardinality(T) <= MaxNearby } }
    /\ dclusters = << >>
    /\ polygons = << >>
    /\ clusterIdx = 0
    /\ features = << >>
    /\ dpc = "cluster"
    /\ lat = 0
    /\ lon = 0
    /\ imageData = NoImage
    /\ buildingPixels = << >>
    /\ boundaryPixels = << >>
    /\ pixelX = 0
    /\ pixelY = 0
    /\ debugInfo = NoDebug
    /\ result = "unset"
    /\ ran = {}
    /\ failure = "none"
    /\ prevCall = NoCall
    /\ cpIndex = 0
    /\ cpVisited = {}
    /\ cpCluster = << >>
    /\ cpQueue = << >>
    /\ fbLat = 0
    /\ fbLon = 0
    /\ overpass = [status |-> "unset", elements |-> << >>]
    /\ fbpc = "idle"
    /\ fbResult = [type |-> "unset", features |-> << >>]
    /\ InitFillNone
    /\ InitClusterIdle
    /\ InitClassifyIdle
    /\ InitPageIdle

NextDetect ==
    \/ DetectCluster
    \/ DetectConvert
    \/ DetectReturn

SpecDetect == InitDetect /\ [][NextDetect]_vars

InitClassify ==
    /\ colorIn \in { RGBA(r, g, b, a) : r \in ClassifyReds, g \in ClassifyGreens,
                                        b \in ClassifyBlues, a \in ClassifyAlphas }
    /\ tolIn \in ClassifyTolerances
    /\ colorType = "unset"
    /\ colorTypeFF = "unset"
    /\ kpc = "ready"
    /\ tolPrev = 0
    /\ typePrev = "unset"
    /\ typePrevFF = "unset"
    /\ InitFillNone
    /\ InitClusterIdle
    /\ InitDetectIdle
    /\ InitPageIdle

NextClassify ==
    \/ ClassifyMap
    \/ ClassifyFF
    \/ \E tol \in ClassifyTolerances : ClassifyAgain(tol)

SpecClassify == InitClassify /\ [][NextClassify]_vars

-----------------------------------------------------------------------------
(* Specifications of detectBuildingsByColor and fetchBuildings *)

\* Bounds of the tile model: images of ImageWidth x ImageHeight pixels (the
\* server decides the size of the image, the code reads img.width and
\* img.height) that hold a run of up to MaxRun pixels and one more pixel.
\* A query point lies at a pixel's corner or SubPixel - 1 steps off it in
\* both directions.
ImageWidth  == 36
ImageHeight == 1
MaxRun      == 6

White          == RGBA(255, 255, 255, 255)
BuildingColor  == RGBA(255, 230, 190, 255)   \* #FFE6BE
BoundaryColor  == RGBA(255, 178, 128, 255)   \* #FFB280
\* At Manhattan distance 50 and 51 of the building sample (255, 231, 191).
EdgeBuilding   == RGBA(255, 255, 217, 255)
EdgeNone       == RGBA(255, 255, 218, 255)

\* An image of w x h pixels of colour bg with a run of len pixels of colour
\* cRun from (a, row) to the right and the pixel (bx, by) of colour cB.
RunTile(w, h, bg, row, a, len, cRun, bx, by, cB) ==
    [ width  |-> w,
      height |-> h,
      data   |-> [ i \in 0 .. w * h - 1 |->
                     LET x == i % w
                         y == i \div w
                     IN  IF x = bx /\ y = by THEN cB
                         ELSE IF y = row /\ x >= a /\ x < a + len THEN cRun
                         ELSE bg ] ]

RunStarts   == { 0, 26, 27 }
RunLengths  == { 0, MinClusterSize - 1, MinClusterSize, MaxRun }
RunColors   == { BuildingColor, BoundaryColor }
ExtraXs     == { 2, 31, 35 }
ExtraColors == { BuildingColor, EdgeBuilding, EdgeNone }

\* The images a tile server may send.
RunTiles ==
    { RunTile(ImageWidth, ImageHeight, White, row, a, len, cRun, bx, by, cB) :
        row \in 0 .. ImageHeight - 1, a \in RunStarts, len \in RunLengths,
        cRun \in RunColors, bx \in ExtraXs, by \in 0 .. ImageHeight - 1,
        cB \in ExtraColors }

\* Query pixels: inside the image, and beyond its right and lower edge.
QueryXs == { 0, 5, 255 }
QueryYs == { 0, 255 }

\* The point of tile t whose continuous pixel offset is (q + sub / SubPixel).
PointAt(t, q, sub) == (t * TileSize + q) * SubPixel + sub

InitFetchIdle ==
    /\ fbLat = 0
    /\ fbLon = 0
    /\ overpass = [status |-> "unset", elements |-> << >>]
    /\ fbpc = "idle"
    /\ fbResult = [type |-> "unset", features |-> << >>]

InitDetectCall ==
    /\ tileX = 0
    /\ tileY = 0
    /\ nearbyBuildingPixels = << >>
    /\ dclusters = << >>
    /\ polygons = << >>
    /\ clusterIdx = 0
    /\ features = << >>
    /\ imageData = NoImage
    /\ buildingPixels = << >>
    /\ boundaryPixels = << >>
    /\ pixelX = 0
    /\ pixelY = 0
    /\ debugInfo = NoDebug
    /\ result = "unset"
    /\ ran = {}
    /\ failure = "none"
    /\ prevCall = NoCall
    /\ cpIndex = 0
    /\ cpVisited = {}
    /\ cpCluster = << >>
    /\ cpQueue = << >>

InitTile ==
    /\ \E t \in TileIndices, qx \in QueryXs, qy \in QueryYs, sub \in { 0, SubPixel - 1 } :
          /\ lon = PointAt(t[1], qx, sub)
          /\ lat = PointAt(t[2], qy, sub)
    /\ dpc = "start"
    /\ InitDetectCall
    /\ InitFetchIdle
    /\ InitFillNone
    /\ InitClusterIdle
    /\ InitClassifyIdle
    /\ InitPageIdle

\* The stages of detectBuildingsByColor up to the filter, when the server
\* sends an image of images.
DetectFront(images) ==
    \/ DetectStart
    \/ \E outcome \in FetchOutcomes : DetectFetch(outcome)
    \/ \E outcome \in DecodeOutcomes, img \in images : DetectDecode(outcome, img)
    \/ DetectScan
    \/ DetectMarker
    \/ DetectFilter

DetectStages(images) ==
    \/ DetectFront(images)
    \/ DetectCluster
    \/ DetectConvert
    \/ DetectReturn

NextTile == DetectStages(RunTiles)

SpecTile == InitTile /\ [][NextTile]_vars

\* Two calls in a row for one point, the server free to answer each as it may.
InitRetry ==
    /\ \E t \in TileIndices, qx \in { 0, 40 }, qy \in { 0, 1 } :
          /\ lon = PointAt(t[1], qx, 0)
          /\ lat = PointAt(t[2], qy, 1)
    /\ dpc = "start"
    /\ InitDetectCall
    /\ InitFetchIdle
    /\ InitFillNone
    /\ InitClusterIdle
    /\ InitClassifyIdle
    /\ InitPageIdle

RetryTiles ==
    { RunTile(ImageWidth, ImageHeight, White, 0, 0, len, BuildingColor, 35, 0, BoundaryColor) :
        len \in { 0, 4, 5 } }

NextRetry ==
    \/ DetectStages(RetryTiles)
    \/ DetectAgain

SpecRetry == InitRetry /\ [][NextRetry]_vars

\* The tile of the 10 x 10 block: a white 256 x 256 image whose pixels
\* (100,100)-(109,109) have the building reference colour #FFE6BE, with a
\* frame of colour edge one pixel wide around the block.
BlockTile(edge) ==
    [ width  |-> TileSize,
      height |-> TileSize,
      data   |-> [ i \in 0 .. TileSize * TileSize - 1 |->
                     LET x == i % TileSize
                         y == i \div TileSize
                     IN  IF x \in 100 .. 109 /\ y \in 100 .. 109
                           THEN BuildingColor
                           ELSE IF x \in 99 .. 110 /\ y \in 99 .. 110
                                  THEN edge ELSE White ] ]

\* Query pixels that have the whole block within 30 pixels.
BlockQueries == { <<104, 104>>, <<85, 100>> }

\* Query points around the block, and Tokyo Station (lat 35.681236, lon
\* 139.767125), which is pixel (80, 138) of tile (232847, 103226).
InitBlock ==
    /\ \/ \E q \in BlockQueries :
             /\ lon = PointAt(232847, q[1], 0)
             /\ lat = PointAt(103226, q[2], 0)
       \/ /\ lon = PointAt(232847, 80, 0)
          /\ lat = PointAt(103226, 138, 1)
    /\ dpc = "start"
    /\ InitDetectCall
    /\ InitFetchIdle
    /\ InitFillNone
    /\ InitClusterIdle
    /\ InitClassifyIdle
    /\ InitPageIdle

BlockTiles == { BlockTile(White), BlockTile(BoundaryColor) }

\* The detector with the tile decoded and scanned in one step and
\* clusterPixels run one loop iteration per step.
NextBlock ==
    \/ DetectStart
    \/ \E outcome \in FetchOutcomes : DetectFetch(outcome)
    \/ \E outcome \in DecodeOutcomes, img \in BlockTiles : DetectDecodeScan(outcome, img)
    \/ DetectMarker
    \/ DetectFilter
    \/ ClusterBegin
    \/ ClusterFor
    \/ ClusterWhile
    \/ ClusterPush
    \/ ClusterEnd
    \/ DetectConvert
    \/ DetectReturn

SpecBlock == InitBlock /\ [][NextBlock]_vars

\* Bound of the Overpass answers: up to MaxElements elements.
MaxElements == 2

OverpassResponses ==
    { [status |-> "error", elements |-> << >>],
      [status |-> "no elements", elements |-> << >>] }
    \cup { [status |-> "ok", elements |-> e] :
             e \in UNION { [1 .. k -> ElementKinds] : k \in 0 .. MaxElements } }

InitFetch ==
    /\ \E t \in TileIndices, qx \in { 0, 40 } :
          /\ fbLon = PointAt(t[1], qx, 0)
          /\ fbLat = PointAt(t[2], 0, 1)
    /\ overpass \in OverpassResponses
    /\ fbpc = "call"
    /\ fbResult = [type |-> "unset", features |-> << >>]
    /\ lat = 0
    /\ lon = 0
    /\ dpc = "idle"
    /\ InitDetectCall
    /\ InitFillNone
    /\ InitClusterIdle
    /\ InitClassifyIdle
    /\ InitPageIdle

FetchTiles == RetryTiles

NextFetch ==
    \/ FetchBuildingsCall
    \/ FetchBuildingsReturn
    \/ DetectStages(FetchTiles)

SpecFetch == InitFetch /\ [][NextFetch]_vars

\* The page after its first render: both effects are left to run.
InitPage ==
    /\ address = ""
    /\ status = "idle"
    /\ isProcessing = FALSE
    /\ center = InitialCenter
    /\ mapKey = 0
    /\ markerPosition = Null
    /\ searching = {}
    /\ effects = PageEffects
    /\ drawing = {}
    /\ canvas = Blank
    /\ floodFilledAt = Null
    /\ InitFillNone
    /\ InitClusterIdle
    /\ InitDetectIdle
    /\ InitClassifyIdle

NextPage ==
    \/ \E a \in Addresses : SetAddress(a)
    \/ HandleSearch
    \/ \E a \in Addresses, outcome \in GeocodeOutcomes : HandleSearchResume(a, outcome)
    \/ \E e \in PageEffects : RunEffect(e)
    \/ \E d \in drawing : DrawDone(d)

\* React runs the effects a render left, and a drawing that was started
\* comes to its end; the user is free to type and to search or not.
SpecPage ==
    /\ InitPage
    /\ [][NextPage]_vars
    /\ WF_vars(\E e \in PageEffects : RunEffect(e))
    /\ WF_vars(\E d \in drawing : DrawDone(d))

-----------------------------------------------------------------------------
(* Properties of clusterPixels *)

Range(seq) == { seq[i] : i \in DOMAIN seq }

\* The positions (cluster, place in the cluster) of the returned pixels.
ClusterSlots ==
    UNION { { <<k, i>> : i \in DOMAIN clusters[k] } : k \in DOMAIN clusters }

\* C1: for every input pixel sequence and every maxDistance >= 0 the
\* clusters returned by clusterPixels partition the input: together they hold
\* exactly the input's pixels, and no pixel coordinate occurs in two clusters
\* or twice in one cluster.
C1_ClustersPartitionInput ==
    cpc = "done" =>
        /\ UNION { Range(clusters[k]) : k \in DOMAIN clusters } = Range(pixels)
        /\ \A s \in ClusterSlots, t \in ClusterSlots :
              clusters[s[1]][s[2]] = clusters[t[1]][t[2]] => s = t

\* A run on an input with a repeated pixel that yields two clusters, one of
\* them with two pixels or more.
C1_Witness ==
    /\ cpc = "done"
    /\ Len(pixels) > Cardinality(Range(pixels))
    /\ Len(clusters) >= 2
    /\ \E k \in DOMAIN clusters : Len(clusters[k]) >= 2

\* Two input pixels joined by an edge: their Euclidean distance is at most
\* maxDistance.
Linked(p, q) ==
    (p[1] - q[1]) * (p[1] - q[1]) + (p[2] - q[2]) * (p[2] - q[2])
        <= maxDistance * maxDistance

\* The input pixels that a chain of edges reaches from the pixels of S.
RECURSIVE ReachedFrom(_)
ReachedFrom(S) ==
    LET more == S \cup { q \in Range(pixels) : \E p \in S : Linked(p, q) }
    IN  IF more = S THEN S ELSE ReachedFrom(more)

\* C18: every cluster returned by clusterPixels is exactly one connected
\* component of the graph on the input pixels whose edges join pixels at
\* Euclidean distance <= maxDistance: no cluster is empty, the members of a
\* cluster are the pixels that chains of edges reach from any one member,
\* and no two pixels of different clusters are within maxDistance.
C18_ClustersAreConnectedComponents ==
    cpc = "done" =>
        /\ \A k \in DOMAIN clusters :
              /\ clusters[k] # << >>
              /\ \A p \in Range(clusters[k]) : ReachedFrom({p}) = Range(clusters[k])
        /\ \A j \in DOMAIN clusters, k \in DOMAIN clusters :
              j # k => \A p \in Range(clusters[j]), q \in Range(clusters[k]) : ~Linked(p, q)

\* A cluster with two members farther apart than maxDistance, joined by a
\* pixel that comes after both of them in the input, and a second cluster.
C18_Witness ==
    /\ cpc = "done"
    /\ maxDistance > 0
    /\ Len(clusters) >= 2
    /\ \E k \in DOMAIN clusters :
          /\ ~Linked(pixels[1], pixels[2])
          /\ {pixels[1], pixels[2]} \subseteq Range(clusters[k])

\* The inputs of the bounded model that hold the same pixels as the input
\* at hand, in any order and with any repetition.
SamePixelInputs ==
    { q \in UNION { [1 .. n -> Range(pixels)] : n \in 0 .. MaxPixels } :
        Range(q) = Range(pixels) }

\* The clusters of a result as a set of sets of pixels.
AsSets(cs) == { Range(cs[k]) : k \in DOMAIN cs }

\* The place in the input of the earliest pixel of the k-th cluster.
EarliestOf(k) ==
    CHOOSE i \in DOMAIN pixels :
        /\ pixels[i] \in Range(clusters[k])
        /\ \A j \in 1 .. i - 1 : pixels[j] \notin Range(clusters[k])

\* C24: the result of clusterPixels is reproducible from the input alone:
\* for any two orderings of the same pixel set and the same maxDistance the
\* returned clusters are the same as sets of pixels, and for a given input
\* sequence the clusters are emitted in the order in which their earliest
\* input pixel occurs, each cluster starting with that pixel.
C24_ClustersDependOnInputOnly ==
    cpc = "done" =>
        /\ \A q \in SamePixelInputs :
              AsSets(clusterPixels(q, maxDistance)) = AsSets(clusters)
        /\ \A k \in DOMAIN clusters :
              /\ clusters[k][1] = pixels[EarliestOf(k)]
              /\ \A l \in DOMAIN clusters : k < l => EarliestOf(k) < EarliestOf(l)

\* A run that gave two clusters or more, one of them with two pixels or
\* more, on an input of which another ordering gives the clusters in another
\* order or with their pixels in another order.
C24_Witness ==
    /\ cpc = "done"
    /\ Len(clusters) >= 2
    /\ \E k \in DOMAIN clusters : Len(clusters[k]) >= 2
    /\ \E q \in SamePixelInputs :
          /\ Len(q) = Len(pixels)
          /\ clusterPixels(q, maxDistance) # clusters

-----------------------------------------------------------------------------
(* Properties of calculateBounds and boundsToPolygon *)

\* C20: for every non-empty cluster the ring built by calculateBounds and
\* boundsToPolygon has exactly 5 points in the order (minX,minY),
\* (maxX,minY), (maxX,maxY), (minX,maxY), (minX,minY), with minX, maxX, minY,
\* maxY the extreme coordinates of the cluster's pixels: every pixel lies
\* inside or on the box, each side of the box holds a pixel, and the ring is
\* closed.
C20_RingIsClosedBoundingBox ==
    cbCluster # << >> =>
        /\ Len(cbPolygon) = 5
        /\ cbPolygon[1] = cbPolygon[5]
        /\ cbPolygon[1][2] = cbPolygon[2][2]
        /\ cbPolygon[2][1] = cbPolygon[3][1]
        /\ cbPolygon[3][2] = cbPolygon[4][2]
        /\ cbPolygon[4][1] = cbPolygon[1][1]
        /\ \A p \in Range(cbCluster) :
              /\ cbPolygon[1][1] <= p[1] /\ p[1] <= cbPolygon[3][1]
              /\ cbPolygon[1][2] <= p[2] /\ p[2] <= cbPolygon[3][2]
        /\ \E p \in Range(cbCluster) : p[1] = cbPolygon[1][1]
        /\ \E p \in Range(cbCluster) : p[2] = cbPolygon[1][2]
        /\ \E p \in Range(cbCluster) : p[1] = cbPolygon[3][1]
        /\ \E p \in Range(cbCluster) : p[2] = cbPolygon[3][2]

\* The ring of a cluster that spreads in both directions and has no pixel at
\* its box's corner (minX,minY).
C20_Witness ==
    /\ cbCluster # << >>
    /\ cbPolygon[1][1] < cbPolygon[3][1]
    /\ cbPolygon[1][2] < cbPolygon[3][2]
    /\ cbPolygon[1] \notin Range(cbCluster)

-----------------------------------------------------------------------------
(* Properties of detectBuildingsByColor *)

\* The clusters of five pixels or more, in the order of clusters.
LargeClusters == SelectSeq(dclusters, LAMBDA c : Len(c) >= 5)

\* C2: every emitted polygon's properties.pixelCount is the number of pixels
\* of the cluster whose bounding box produced the polygon, also when a cluster
\* of fewer than 5 pixels precedes one of 5 or more.
C2_PixelCountIsSourceClusterSize ==
    dpc = "done" =>
        \A k \in DOMAIN features :
            /\ k \in DOMAIN LargeClusters
            /\ features[k].pixelCount = Len(LargeClusters[k])

\* C3: the polygons returned are, one for one and in order, the bounding
\* boxes of the clusters of 5 pixels or more; a cluster of fewer than 5 pixels
\* produces none.
C3_OnePolygonPerLargeCluster ==
    dpc = "done" =>
        /\ Len(features) = Len(LargeClusters)
        /\ Len(features) =
             Cardinality({ k \in DOMAIN dclusters : Len(dclusters[k]) >= 5 })
        /\ \A k \in DOMAIN features :
              features[k].coordinates =
                GeoPolygon(boundsToPolygon(calculateBounds(LargeClusters[k])),
                           <<tileX, tileY>>)

\* A finished detection whose clusters are a small one followed by one of
\* exactly five pixels, which gave the only polygon.
C3_Witness ==
    /\ dpc = "done"
    /\ Len(dclusters) = 2
    /\ Len(dclusters[1]) < 5
    /\ Len(dclusters[2]) = 5
    /\ Len(features) = 1

-----------------------------------------------------------------------------
(* Properties of floodFill *)

SeedInBounds ==
    /\ startX >= 0 /\ startX < Width
    /\ startY >= 0 /\ startY < Height

SeedIndex == startY * Width + startX

\* Squared Euclidean distance of two colours in r, g, b.
SqDist(c1, c2) ==
    (c1.r - c2.r) * (c1.r - c2.r) + (c1.g - c2.g) * (c1.g - c2.g)
      + (c1.b - c2.b) * (c1.b - c2.b)

EqualRGB(c1, c2) == c1.r = c2.r /\ c1.g = c2.g /\ c1.b = c2.b

\* Pixels i and j are neighbours in a row or in a column.
Adjacent4(i, j) ==
    LET xi == i % Width
        yi == i \div Width
        xj == j % Width
        yj == j \div Width
    IN  \/ (yi = yj /\ (xi = xj + 1 \/ xj = xi + 1))
        \/ (xi = xj /\ (yi = yj + 1 \/ yj = yi + 1))

RECURSIVE Grow(_, _)
Grow(S, allowed) ==
    LET next == S \cup { j \in allowed : \E i \in S : Adjacent4(i, j) }
    IN  IF next = S THEN S ELSE Grow(next, allowed)

\* The 4-connected component of pixel i inside the set allowed.
Component(i, allowed) == IF i \in allowed THEN Grow({i}, allowed) ELSE {}

\* The pixels whose bytes the current call has changed.
Changed == { i \in PixelIndices : data[i] # data0[i] }

\* The pixels whose colour on entry is within tolerance of the seed's colour
\* on entry.
WithinToleranceOfSeed ==
    { i \in PixelIndices :
        SqDist(data0[i], data0[SeedIndex]) <= tolerance * tolerance }

\* C4: floodFill terminates on every finite buffer, for every seed,
\* fillColor and tolerance >= 0: a call that has entered the loop reaches its
\* return, with the work stack empty.
C4_FloodFillTerminates ==
    (fpc = "loop") ~> (fpc = "done" /\ stack = << >>)

\* A finished call that overwrote pixels with a fillColor that is itself
\* within tolerance of the seed's original colour without being that colour.
C4_Witness ==
    /\ fpc = "done"
    /\ SeedInBounds
    /\ ret > 1
    /\ fillColor # data0[SeedIndex]
    /\ SqDist(fillColor, data0[SeedIndex]) > 0
    /\ SqDist(fillColor, data0[SeedIndex]) <= tolerance * tolerance

\* C5: floodFill is idempotent: a second call with the same seed, fillColor
\* and tolerance on the buffer the first call left returns 0 and changes no
\* byte of the buffer.
C5_SecondCallChangesNothing ==
    (fpc = "done" /\ repeat) => (ret = 0 /\ data = data0)

\* A finished repeated call whose seed pixel carries the opaque red that only
\* a fill can have written.
C5_Witness ==
    /\ fpc = "done"
    /\ repeat
    /\ SeedInBounds
    /\ fillColor = RGBA(255, 0, 0, 255)
    /\ data[SeedIndex] = fillColor
    /\ \E i \in PixelIndices : i # SeedIndex /\ data[i] = fillColor

\* C6: when the seed pixel's colour already equals fillColor, floodFill
\* returns 0 and modifies no pixel, whatever the neighbours and the tolerance.
C6_SeedAlreadyFilledIsNoOp ==
    (fpc = "done" /\ SeedInBounds /\ data0[SeedIndex] = fillColor)
        => (ret = 0 /\ data = data0)

\* A finished call on a seed that has the fill colour and a neighbour of
\* another colour within tolerance of it.
C6_Witness ==
    /\ fpc = "done"
    /\ SeedInBounds
    /\ data0[SeedIndex] = fillColor
    /\ tolerance > 0
    /\ \E j \in PixelIndices :
          /\ Adjacent4(SeedIndex, j)
          /\ data0[j] # fillColor
          /\ SqDist(data0[j], fillColor) <= tolerance * tolerance

\* C7 as stated: the pixels floodFill overwrites are exactly the 4-connected
\* region of the seed among the in-bounds pixels whose original colour is
\* within Euclidean RGB distance <= tolerance of the seed's original colour.
\* Stated for buffers whose pixels all carry fillColor's alpha, where having
\* fillColor's r, g and b is the same as being fillColor.
C7_OverwritesWholeToleranceRegion ==
    ( /\ fpc = "done"
      /\ SeedInBounds
      /\ \A i \in PixelIndices : data0[i].a = fillColor.a )
        => Changed = Component(SeedIndex, WithinToleranceOfSeed)

\* C7 amended: the pixels floodFill overwrites are exactly the 4-connected
\* region of the seed among the in-bounds pixels whose original colour is
\* within Euclidean RGB distance <= tolerance of the seed's original colour
\* and does not already have fillColor's r, g and b (the comparison is always
\* against the seed's original colour); such pixels are neither overwritten
\* nor crossed, and nothing is overwritten when the seed itself has
\* fillColor's r, g and b.
C7_OverwritesRegionNotYetFilled ==
    (fpc = "done" /\ SeedInBounds)
        => /\ Changed =
                Component(SeedIndex,
                          { i \in WithinToleranceOfSeed :
                              ~EqualRGB(data0[i], fillColor) })
           /\ \A i \in Changed : data[i] = fillColor

\* A finished call from a white seed with tolerance 10 that overwrote a
\* pixel at distance sqrt(75) and stopped at a neighbour of that pixel which
\* is within 10 of it but not of the seed.
C7_Witness ==
    /\ fpc = "done"
    /\ SeedInBounds
    /\ tolerance = 10
    /\ data0[SeedIndex] = RGBA(255, 255, 255, 255)
    /\ \E i \in Changed, j \in PixelIndices \ Changed :
          /\ data0[i] = RGBA(250, 250, 250, 255)
          /\ data0[j] = RGBA(245, 245, 245, 255)
          /\ Adjacent4(i, j)

\* C8 as stated: a call with a seed outside the buffer reports a failure
\* that differs from the 0 of a fill that changed no pixel, and leaves the
\* buffer unchanged.
C8_InvalidSeedIsReported ==
    (fpc = "done" /\ ~SeedInBounds) => (ret # 0 /\ data = data0)

\* C8 amended: a call with a seed outside the buffer returns 0, the value
\* of a fill that changed no pixel, and leaves the buffer unchanged.
C8_OutsideSeedReturnsZero ==
    (fpc = "done" /\ ~SeedInBounds) => (ret = 0 /\ data = data0)

\* A finished call whose seed lies outside the buffer while its byte index
\* falls on a pixel of the buffer that has not the fill colour, so that the
\* loop was entered.
C8_Witness ==
    /\ fpc = "done"
    /\ ~SeedInBounds
    /\ SeedIndex \in PixelIndices
    /\ startColor # Undefined
    /\ ~EqualRGB(startColor, fillColor)
    /\ ~EqualRGB(data[SeedIndex], fillColor)

\* C9: on a buffer whose pixels all have one colour, different from
\* fillColor, floodFill from any in-bounds seed with any tolerance >= 0
\* overwrites every pixel with fillColor and returns width * height.
C9_UniformBufferIsFilledWhole ==
    ( /\ fpc = "done"
      /\ SeedInBounds
      /\ \A i \in PixelIndices : data0[i] = data0[0]
      /\ data0[0] # fillColor )
        => /\ ret = Width * Height
           /\ \A i \in PixelIndices : data[i] = fillColor

\* C23: the value returned by floodFill equals the number of pixels whose
\* colour differs between the buffer before and after the call; each pixel is
\* overwritten at most once per call (every step that counts a pixel
\* overwrites one pixel that still had its colour of entry, so the result
\* never exceeds width * height), every overwritten pixel ends with exactly
\* fillColor's r, g, b and a, and every other pixel is unchanged.
C23_ReturnCountsOverwrittenPixels ==
    /\ [](fpc = "done" =>
            /\ ret = Cardinality(Changed)
            /\ ret <= Width * Height
            /\ \A i \in Changed : data[i] = fillColor)
    /\ [](fpc = "loop" => processedPixels = Cardinality(Changed))
    /\ [][ \/ data' = data /\ (processedPixels' = processedPixels \/ processedPixels' = 0)
           \/ /\ processedPixels' = processedPixels + 1
              /\ \E i \in PixelIndices :
                    /\ data[i] = data0[i]
                    /\ data[i] # fillColor
                    /\ data' = [data EXCEPT ![i] = fillColor] ]_vars

\* A finished call that overwrote some but not all pixels, each of them with
\* an alpha other than fillColor's on entry.
C23_Witness ==
    /\ fpc = "done"
    /\ ret >= 2
    /\ ret < Width * Height
    /\ \A i \in Changed : data0[i].a # fillColor.a

\* C21: the no-op test at the entry of floodFill compares all four channels:
\* the early return with 0 is taken only when the seed pixel equals fillColor
\* in r, g, b and a; a seed pixel that has fillColor's r, g, b but another
\* alpha is not treated as already filled and is overwritten with fillColor,
\* its alpha included.
C21_NoOpTestComparesAllChannels ==
    (fpc = "done" /\ SeedInBounds) =>
        /\ ret = 0 => data0[SeedIndex] = fillColor
        /\ (EqualRGB(data0[SeedIndex], fillColor) /\ data0[SeedIndex].a # fillColor.a)
              => (ret >= 1 /\ data[SeedIndex] = fillColor)

-----------------------------------------------------------------------------
(* Properties of isBuildingColor *)

\* The sum of the absolute channel differences of two colours.
Manhattan(c1, c2) ==
    (IF c1.r < c2.r THEN c2.r - c1.r ELSE c1.r - c2.r)
      + (IF c1.g < c2.g THEN c2.g - c1.g ELSE c1.g - c2.g)
      + (IF c1.b < c2.b THEN c2.b - c1.b ELSE c1.b - c2.b)

NearSome(samples, c, tol) == \E i \in DOMAIN samples : Manhattan(c, samples[i]) <= tol

\* The class the contract assigns with reference palette pal.
ClassOf(pal, c, tol) ==
    IF NearSome(pal.building, c, tol) THEN "building"
    ELSE IF NearSome(pal.boundary, c, tol) THEN "boundary"
    ELSE "none"

\* C10: isBuildingColor returns 'building' iff some building sample is at
\* Manhattan distance <= tol, else 'boundary' iff some boundary sample is,
\* else 'none'; a colour near both palettes is 'building', and the alpha of
\* the pixel plays no part.  Holds of both pages' classifier, each with its
\* own palette.
C10_ClassIsNearestPaletteByManhattan ==
    kpc = "done" =>
        /\ colorType = ClassOf(BUILDING_COLORS, colorIn, tolIn)
        /\ colorTypeFF = ClassOf(BUILDING_COLORS_FF, colorIn, tolIn)

\* A transparent pixel within tolerance of a building sample and of a
\* boundary sample, classified 'building' by both pages.
C10_Witness ==
    /\ kpc = "done"
    /\ colorIn.a = 0
    /\ NearSome(BUILDING_COLORS.building, colorIn, tolIn)
    /\ NearSome(BUILDING_COLORS.boundary, colorIn, tolIn)
    /\ colorType = "building"
    /\ colorTypeFF = "building"

\* C22: the colour classifier of the flood-fill page is the same function as
\* the classifier of the map page: for every colour (r, g, b) and every
\* tolerance both isBuildingColor implementations, each with its own
\* reference palette, return the same class.
C22_BothPagesClassifyAlike ==
    kpc = "done" => colorTypeFF = colorType

\* The classification at hand follows one of the same pixel with a tolerance
\* that was not larger.
RaisedTolerance == kpc = "done" /\ typePrev # "unset" /\ tolPrev <= tolIn

\* C11 as stated: classification is monotone in the tolerance: for tol1 <=
\* tol2 a colour that is not 'none' at tol1 is not 'none' at tol2, and the
\* colours of each class at tol1 are colours of that class at tol2.
C11_EachClassGrowsWithTolerance ==
    RaisedTolerance =>
        /\ typePrev # "none" => colorType # "none"
        /\ typePrevFF # "none" => colorTypeFF # "none"
        /\ \A class \in {"building", "boundary"} :
              /\ typePrev = class => colorType = class
              /\ typePrevFF = class => colorTypeFF = class

\* C11 amended: for tol1 <= tol2 a colour that is not 'none' at tol1 is not
\* 'none' at tol2, and the colours classified 'building' at tol1 are
\* classified 'building' at tol2; a colour classified 'boundary' at tol1 is
\* 'boundary' or 'building' at tol2, the building samples being tried first.
C11_MatchedSetGrowsWithTolerance ==
    RaisedTolerance =>
        /\ typePrev # "none" => colorType # "none"
        /\ typePrevFF # "none" => colorTypeFF # "none"
        /\ typePrev = "building" => colorType = "building"
        /\ typePrevFF = "building" => colorTypeFF = "building"
        /\ typePrev = "boundary" => colorType \in {"boundary", "building"}
        /\ typePrevFF = "boundary" => colorTypeFF \in {"boundary", "building"}

\* The boundary sample #FFD4A9, 'boundary' at tolerance 0 and 'building' at
\* the larger tolerance 39.
C11_Witness ==
    /\ RaisedTolerance
    /\ colorIn.r = 255 /\ colorIn.g = 212 /\ colorIn.b = 169
    /\ tolPrev = 0
    /\ tolIn = 39
    /\ typePrev = "boundary"
    /\ colorType = "building"

-----------------------------------------------------------------------------
(* Properties of detectBuildingsByColor from the call on *)

\* The pixel coordinates of the decoded image and the colour of each.
ImagePixels ==
    (0 .. imageData.width - 1) \X (0 .. imageData.height - 1)

ColourOf(p) == imageData.data[p[2] * imageData.width + p[1]]

\* The pixels of the tile that are 'building' at tolerance 50.
BuildingCandidates ==
    { p \in ImagePixels : ClassOf(BUILDING_COLORS, ColourOf(p), 50) = "building" }

\* Squared Euclidean distance in pixels of p to the query pixel.
QueryDist2(p) ==
    (p[1] - pixelX) * (p[1] - pixelX) + (p[2] - pixelY) * (p[2] - pixelY)

\* The building pixels at most 30 px away from the query pixel.
NearQuery == { p \in BuildingCandidates : QueryDist2(p) <= 30 * 30 }

\* C12: the pixels handed to clustering by detectBuildingsByColor are
\* exactly the tile pixels classified 'building' (tolerance 50) whose
\* Euclidean distance to the query pixel is <= 30; no other pixel belongs to
\* a cluster or gives a corner coordinate of a polygon.
C12_ClusteredPixelsAreNearbyBuildingPixels ==
    ("filter" \in ran) =>
        /\ Range(nearbyBuildingPixels) = NearQuery
        /\ Len(nearbyBuildingPixels) = Cardinality(NearQuery)
        /\ \A k \in DOMAIN dclusters : Range(dclusters[k]) \subseteq NearQuery
        /\ \A k \in DOMAIN polygons :
              \A c \in DOMAIN polygons[k] :
                 \E p \in NearQuery, q \in NearQuery :
                    polygons[k][c] = << tileX * 256 + p[1], tileY * 256 + q[2] >>

\* A finished detection with a polygon, a clustered pixel exactly 30 px from
\* the query pixel and a building pixel of the tile farther away.
C12_Witness ==
    /\ dpc = "done"
    /\ Len(features) >= 1
    /\ \E k \in DOMAIN dclusters :
          \E p \in Range(dclusters[k]) : QueryDist2(p) = 30 * 30
    /\ \E p \in BuildingCandidates : QueryDist2(p) > 30 * 30

\* The terminal outcome of a call, from what it executed.
OutcomeOf(call) ==
    IF call.failure \in {"network error", "status not 2xx"} THEN "FetchFailure"
    ELSE IF call.failure \in {"image error", "no context"} THEN "DecodeFailure"
    ELSE IF "filter" \notin call.ran THEN "OutOfBounds"
    ELSE IF "cluster" \notin call.ran THEN "NoCandidates"
    ELSE IF call.features = 0 THEN "NoCluster"
    ELSE "Found"

\* The terminal outcome of the finished call at hand, from its inputs.
Outcome ==
    IF failure \in {"network error", "status not 2xx"} THEN "FetchFailure"
    ELSE IF failure \in {"image error", "no context"} THEN "DecodeFailure"
    ELSE IF <<pixelX, pixelY>> \notin ImagePixels THEN "OutOfBounds"
    ELSE IF NearQuery = {} THEN "NoCandidates"
    ELSE IF \A k \in DOMAIN dclusters : Len(dclusters[k]) < 5 THEN "NoCluster"
    ELSE "Found"

FailureKinds ==
    { "FetchFailure", "DecodeFailure", "OutOfBounds", "NoCandidates", "NoCluster" }

\* C13 as stated: FetchFailure, DecodeFailure, OutOfBounds, NoCandidates and
\* NoCluster yield results the caller can tell apart: two calls that end in
\* two different ones of them do not return the same value.
C13_FailuresAreToldApart ==
    ( /\ dpc = "done"
      /\ prevCall # NoCall
      /\ OutcomeOf(prevCall) \in FailureKinds
      /\ Outcome \in FailureKinds
      /\ OutcomeOf(prevCall) # Outcome )
        => <<prevCall.result, prevCall.features>> # <<result, Len(features)>>

\* C13 amended: FetchFailure, DecodeFailure, OutOfBounds and NoCandidates all
\* yield the same null, which the caller cannot tell apart; only NoCluster is
\* distinct from them: it yields a FeatureCollection with zero features, and
\* a detection with a cluster of >= 5 yields one with a feature or more.
C13_OnlyNoClusterIsToldApart ==
    dpc = "done" =>
        /\ Outcome \in {"FetchFailure", "DecodeFailure", "OutOfBounds", "NoCandidates"}
              => (result = "null" /\ features = << >>)
        /\ Outcome = "NoCluster" => (result = "FeatureCollection" /\ features = << >>)
        /\ Outcome = "Found" => (result = "FeatureCollection" /\ Len(features) >= 1)

\* A call that found no candidate, after a call for the same point whose
\* fetch failed: both returned null.
C13_Witness ==
    /\ dpc = "done"
    /\ OutcomeOf(prevCall) = "FetchFailure"
    /\ Outcome = "NoCandidates"
    /\ prevCall.result = "null"
    /\ result = "null"

\* The scan found building pixels, all of them farther than 30 px from the
\* query pixel, and the call has ended.
AllCandidatesFar ==
    /\ dpc = "done"
    /\ "marker" \in ran
    /\ BuildingCandidates # {}
    /\ \A p \in BuildingCandidates : QueryDist2(p) > 30 * 30

\* C14 as stated: when the tile contains building-coloured pixels but all of
\* them lie farther than 30 px from the query pixel, detectBuildingsByColor
\* returns a FeatureCollection with zero features.
C14_FarCandidatesGiveEmptyCollection ==
    AllCandidatesFar => (result = "FeatureCollection" /\ features = << >>)

\* C14 amended: when the tile contains building-coloured pixels but all of
\* them lie farther than 30 px from the query pixel, detectBuildingsByColor
\* returns null (no result), not a FeatureCollection, and clusters nothing.
C14_FarCandidatesGiveNull ==
    AllCandidatesFar =>
        /\ result = "null"
        /\ features = << >>
        /\ ran \cap {"cluster", "convert"} = {}

\* A call whose query pixel is in the image and whose only building pixels
\* are farther than 30 px away, one of them at 31 px.
C14_Witness ==
    /\ AllCandidatesFar
    /\ <<pixelX, pixelY>> \in ImagePixels
    /\ \E p \in BuildingCandidates : QueryDist2(p) = 31 * 31

\* C15: detectBuildingsByColor never propagates an exception: when the tile
\* fetch fails or the image cannot be decoded it returns null, and no scan,
\* filter, clustering or conversion is executed for that invocation.
C15_FetchOrDecodeFailureReturnsNull ==
    /\ result \in {"unset", "null", "FeatureCollection"}
    /\ failure # "none" =>
          /\ dpc = "done"
          /\ result = "null"
          /\ ran \cap {"scan", "marker", "filter", "cluster", "convert"} = {}
          /\ buildingPixels = << >> /\ boundaryPixels = << >>
          /\ nearbyBuildingPixels = << >> /\ dclusters = << >>
          /\ polygons = << >> /\ features = << >>
          /\ debugInfo = NoDebug

\* A call that ended because the fetched bytes are no image.
C15_Witness ==
    /\ dpc = "done"
    /\ failure = "image error"
    /\ ran = {"fetch", "decode"}
    /\ result = "null"

\* The scan found the block (100,100)-(109,109) and nothing else of building
\* colour (BlockTiles give each pixel of the block the exact reference colour
\* #FFE6BE), and the whole block is within 30 px of the query pixel.
BlockWithinRadius ==
    /\ { buildingPixels[i] : i \in 1 .. Len(buildingPixels) } = (100 .. 109) \X (100 .. 109)
    /\ \A i \in 1 .. Len(buildingPixels) : QueryDist2(buildingPixels[i]) <= 30 * 30

\* C16: for a tile whose only building-coloured pixels form one solid
\* 10 x 10 block of #FFE6BE at (100,100)-(109,109) within the 30 px radius of
\* the query pixel, detectBuildingsByColor returns exactly one polygon, with
\* pixel count 100 and the ring of the projected corners (100,100),
\* (109,100), (109,109), (100,109), (100,100).
C16_BlockGivesOnePolygon ==
    (dpc = "done" /\ "marker" \in ran /\ BlockWithinRadius) =>
        /\ result = "FeatureCollection"
        /\ Len(features) = 1
        /\ features[1].pixelCount = 100
        /\ features[1].coordinates =
             << << tileX * 256 + 100, tileY * 256 + 100 >>,
                << tileX * 256 + 109, tileY * 256 + 100 >>,
                << tileX * 256 + 109, tileY * 256 + 109 >>,
                << tileX * 256 + 100, tileY * 256 + 109 >>,
                << tileX * 256 + 100, tileY * 256 + 100 >> >>

\* A finished detection on the block tile with a boundary-coloured frame
\* around the block, from a query pixel 24 px away from the far corners.
C16_Witness ==
    /\ dpc = "done"
    /\ result = "FeatureCollection"
    /\ pixelX = 85
    /\ pixelY = 100
    /\ Len(boundaryPixels) > 0
    /\ BlockWithinRadius

-----------------------------------------------------------------------------
(* Properties of fetchBuildings *)

\* The Overpass answer gives no building feature: the request failed, or no
\* element of the answer is a way with geometry.
NoAuthoritativeFeatures ==
    \/ overpass.status # "ok"
    \/ \A k \in DOMAIN overpass.elements :
          ~(overpass.elements[k].type = "way" /\ overpass.elements[k].geometry)

\* C17: whenever the authoritative lookup of fetchBuildings yields no
\* building features (an empty element list, elements none of which is a way
\* with geometry, or an error), fetchBuildings invokes detectBuildingsByColor
\* for the same (lat, lon) and returns its result.
C17_NoFeaturesFallsBackToDetector ==
    (fbpc = "done" /\ NoAuthoritativeFeatures) =>
        /\ dpc = "done"
        /\ lat = fbLat
        /\ lon = fbLon
        /\ fbResult = [type |-> result, features |-> features]

-----------------------------------------------------------------------------
(* Properties of the flood-fill page *)

\* C25: on the flood-fill page, after an address search succeeds (handleSearch
\* sets center and markerPosition), the effects that follow eventually run
\* detectAndFloodFill for the searched coordinate.
C25_SearchLeadsToFloodFill ==
    \A c \in Coordinates :
        (markerPosition = c /\ center = c) ~> (floodFilledAt = c)

-----------------------------------------------------------------------------
(* Properties of the tile coordinate transform *)

====
